---------------------------- MODULE Spec2Model ----------------------------
(***************************************************************************)
(* InstaClick: a content script that turns plain-text URLs into anchors    *)
(* (src/src/content.js), a hover preview manager with a preload queue and  *)
(* a time-boxed metadata cache (src/src/preview.js), and the background    *)
(* service worker that stores settings and click history (its source is    *)
(* the tail of src/README.md, lines 218-491).                              *)
(*                                                                         *)
(* Text is modelled as sequences of one-character strings, so that the     *)
(* substring tests, the URL parse and the HTML attribute parse of the code *)
(* are computed rather than assumed.                                       *)
(***************************************************************************)
EXTENDS Integers, Sequences, FiniteSets, TLC

(***************************************************************************)
(* Characters and strings                                                  *)
(***************************************************************************)
UpperChars == <<"A","B","C","D","E","F","G","H","I","J","K","L","M",
                "N","O","P","Q","R","S","T","U","V","W","X","Y","Z">>
LowerChars == <<"a","b","c","d","e","f","g","h","i","j","k","l","m",
                "n","o","p","q","r","s","t","u","v","w","x","y","z">>
DigitChars == <<"0","1","2","3","4","5","6","7","8","9">>

Range(s) == {s[i] : i \in DOMAIN s}

IsUpper(c) == c \in Range(UpperChars)
IsLower(c) == c \in Range(LowerChars)
IsAlpha(c) == IsUpper(c) \/ IsLower(c)
IsDigit(c) == c \in Range(DigitChars)
IsAlnum(c) == IsAlpha(c) \/ IsDigit(c)

\* String.prototype.toLowerCase on one ASCII character.
LowerChar(c) ==
  IF IsUpper(c)
  THEN LowerChars[CHOOSE i \in DOMAIN UpperChars : UpperChars[i] = c]
  ELSE c

ToLower(s) == [i \in DOMAIN s |-> LowerChar(s[i])]

DigitVal(c) == (CHOOSE i \in DOMAIN DigitChars : DigitChars[i] = c) - 1

\* s.slice(from) with a 1-based position: the characters from `from` on.
Drop(s, n) == SubSeq(s, n + 1, Len(s))
Take(s, n) == SubSeq(s, 1, n)

StartsWith(s, p) == Len(p) <= Len(s) /\ Take(s, Len(p)) = p
EndsWith(s, p) == Len(p) <= Len(s) /\ Drop(s, Len(s) - Len(p)) = p

\* String.prototype.includes.
Includes(s, p) ==
  \E i \in 0..(Len(s) - Len(p)) : SubSeq(s, i + 1, i + Len(p)) = p

\* The first position in s of a character of set cs, or Len(s) + 1.
FirstOf(s, cs) ==
  IF \E i \in DOMAIN s : s[i] \in cs
  THEN CHOOSE i \in DOMAIN s : s[i] \in cs /\ \A j \in 1..(i - 1) : s[j] \notin cs
  ELSE Len(s) + 1

\* The last position in s of a character of set cs, or 0.
LastOf(s, cs) ==
  IF \E i \in DOMAIN s : s[i] \in cs
  THEN CHOOSE i \in DOMAIN s : s[i] \in cs /\ \A j \in (i + 1)..Len(s) : s[j] \notin cs
  ELSE 0

\* String.prototype.split on one separator character.
RECURSIVE Split(_, _)
Split(s, sep) ==
  LET i == FirstOf(s, {sep})
  IN IF i > Len(s) THEN <<s>>
     ELSE <<Take(s, i - 1)>> \o Split(Drop(s, i), sep)

\* Array.prototype.join with one separator character.
RECURSIVE Join(_, _)
Join(parts, sep) ==
  IF Len(parts) = 0 THEN <<>>
  ELSE IF Len(parts) = 1 THEN parts[1]
  ELSE parts[1] \o <<sep>> \o Join(Tail(parts), sep)

\* String.prototype.replace(p, '') with a string pattern: the first
\* occurrence only.
ReplaceFirst(s, p) ==
  IF Includes(s, p)
  THEN LET i == CHOOSE k \in 0..(Len(s) - Len(p)) :
                  /\ SubSeq(s, k + 1, k + Len(p)) = p
                  /\ \A j \in 0..(k - 1) : SubSeq(s, j + 1, j + Len(p)) # p
       IN Take(s, i) \o Drop(s, i + Len(p))
  ELSE s

RECURSIVE DecimalValue(_)
DecimalValue(s) ==
  IF Len(s) = 0 THEN 0
  ELSE 10 * DecimalValue(Take(s, Len(s) - 1)) + DigitVal(s[Len(s)])


(***************************************************************************)
(* new URL(input), without a base: the WHATWG parse of an absolute URL,    *)
(* for inputs over the characters the URL pattern of content.js can match  *)
(* (letters, digits and - @ : . _ + ~ # = ? & / ( ) ) and the characters   *)
(* < > " that the parse of an attribute value can put in their place.      *)
(* Percent escapes, bracketed IPv6 hosts and the short, hexadecimal and    *)
(* octal spellings of IPv4 hosts are not among the inputs of this model.   *)
(***************************************************************************)
NoUrl == <<>>

S_http == <<"h","t","t","p">>
S_https == <<"h","t","t","p","s">>

ParseFailure ==
  [ok |-> FALSE, protocol |-> <<>>, hostname |-> <<>>, href |-> <<>>]

SchemeChars == {"+", "-", "."}

\* The scheme of an input: the characters before the first ":", when they
\* are a letter followed by letters, digits, "+", "-" or "."; else <<>>.
UrlScheme(s) ==
  LET i == FirstOf(s, {":"})
  IN IF /\ i <= Len(s)
        /\ i > 1
        /\ IsAlpha(s[1])
        /\ \A j \in 1..(i - 1) : IsAlnum(s[j]) \/ s[j] \in SchemeChars
     THEN ToLower(Take(s, i - 1))
     ELSE <<>>

\* The authority state skips every "/" after "scheme:" of a special scheme.
RECURSIVE SkipSlashes(_)
SkipSlashes(s) ==
  IF Len(s) > 0 /\ s[1] = "/" THEN SkipSlashes(Tail(s)) ELSE s

DefaultPort(scheme) == IF scheme = S_https THEN 443 ELSE 80

\* Percent-encoding of the userinfo characters the inputs can hold.
RECURSIVE EncodeUserinfo(_)
EncodeUserinfo(s) ==
  IF Len(s) = 0 THEN <<>>
  ELSE (CASE s[1] = "@" -> <<"%","4","0">>
          [] s[1] = "=" -> <<"%","3","D">>
          [] s[1] = ":" -> <<"%","3","A">>
          [] OTHER -> <<s[1]>>) \o EncodeUserinfo(Tail(s))

ForbiddenHostChars ==
  {" ", "#", "/", ":", "<", ">", "?", "@", "[", "\\", "]", "^", "|", "%"}

IsNumeric(s) == Len(s) > 0 /\ \A i \in DOMAIN s : IsDigit(s[i])

\* The host parser's "ends in a number" test and the IPv4 parser, for
\* dotted decimal hosts.
HostEndsInNumber(h) ==
  LET parts == Split(h, ".")
      n == IF parts[Len(parts)] = <<>> THEN Len(parts) - 1 ELSE Len(parts)
  IN n >= 1 /\ IsNumeric(parts[n])

ValidIPv4(h) ==
  LET parts == Split(h, ".")
  IN /\ Len(parts) = 4
     /\ \A i \in 1..4 :
          /\ IsNumeric(parts[i])
          /\ (Len(parts[i]) = 1 \/ parts[i][1] # "0")
          /\ Len(parts[i]) <= 3
          /\ DecimalValue(parts[i]) <= 255

HostValid(h) ==
  /\ Len(h) > 0
  /\ \A i \in DOMAIN h : h[i] \notin ForbiddenHostChars
  /\ (HostEndsInNumber(h) => ValidIPv4(h))

\* The port state: digits only, at most 65535; the scheme's default port
\* and an empty port are dropped from the URL.
PortValid(p) ==
  /\ \A i \in DOMAIN p : IsDigit(p[i])
  /\ Len(p) <= 5
  /\ DecimalValue(p) <= 65535

RECURSIVE StripLeadingZeros(_)
StripLeadingZeros(p) ==
  IF Len(p) > 1 /\ p[1] = "0" THEN StripLeadingZeros(Tail(p)) ELSE p

PortText(scheme, p) ==
  IF Len(p) = 0 \/ DecimalValue(p) = DefaultPort(scheme)
  THEN <<>>
  ELSE <<":">> \o StripLeadingZeros(p)

\* The path state's handling of "." and ".." segments.  segs are the
\* segments after the leading "/", out the path built so far.
RECURSIVE NormalizeSegments(_, _)
NormalizeSegments(segs, out) ==
  IF Len(segs) = 0 THEN out
  ELSE LET seg == segs[1]
           last == Len(segs) = 1
       IN IF seg = <<".", ".">>
          THEN LET popped == IF Len(out) > 0 THEN Take(out, Len(out) - 1) ELSE out
               IN NormalizeSegments(Tail(segs),
                                    IF last THEN Append(popped, <<>>) ELSE popped)
          ELSE IF seg = <<".">>
          THEN NormalizeSegments(Tail(segs),
                                 IF last THEN Append(out, <<>>) ELSE out)
          ELSE NormalizeSegments(Tail(segs), Append(out, seg))

PathText(path) ==
  IF Len(path) = 0 THEN <<"/">>
  ELSE <<"/">> \o Join(NormalizeSegments(Split(Tail(path), "/"), <<>>), "/")

\* The serialized "user:password@" of a URL, empty without credentials.
Credentials(username, password) ==
  IF Len(username) = 0 /\ Len(password) = 0 THEN <<>>
  ELSE username
       \o (IF Len(password) > 0 THEN <<":">> \o password ELSE <<>>)
       \o <<"@">>

\* The percent-encode sets of the path, the query and the fragment all
\* hold < > and the double quote.
RECURSIVE PercentEncode(_)
PercentEncode(s) ==
  IF Len(s) = 0 THEN <<>>
  ELSE (CASE s[1] = "<" -> <<"%","3","C">>
          [] s[1] = ">" -> <<"%","3","E">>
          [] s[1] = "\"" -> <<"%","2","2">>
          [] OTHER -> <<s[1]>>) \o PercentEncode(Tail(s))

\* The path, query and fragment: the path ends at the first "?" or "#"; of
\* the characters of the inputs only < > and the double quote are encoded.
PathQueryHash(after) ==
  LET pEnd == FirstOf(after, {"?", "#"})
  IN PercentEncode(PathText(Take(after, pEnd - 1)) \o Drop(after, pEnd - 1))

\* The host and port states, and the serializer.
UrlAssemble(scheme, username, password, host, port, after) ==
  IF ~HostValid(host) \/ ~PortValid(port) THEN ParseFailure
  ELSE [ok |-> TRUE,
        protocol |-> scheme \o <<":">>,
        hostname |-> host,
        href |-> scheme \o <<":", "/", "/">> \o Credentials(username, password)
                 \o host \o PortText(scheme, port) \o PathQueryHash(after)]

\* The authority is "userinfo@host:port": the userinfo splits at its first
\* ":", the rest at its first ":".
UrlHostPort(scheme, userinfo, hostport, after) ==
  LET uColon == FirstOf(userinfo, {":"})
      colon == FirstOf(hostport, {":"})
  IN UrlAssemble(scheme,
                 EncodeUserinfo(Take(userinfo, uColon - 1)),
                 EncodeUserinfo(Drop(userinfo, uColon)),
                 ToLower(Take(hostport, colon - 1)),
                 Drop(hostport, colon),
                 after)

\* The userinfo ends at the last "@" of the authority.
UrlAuthority(scheme, authority, after) ==
  LET at == LastOf(authority, {"@"})
  IN UrlHostPort(scheme, Take(authority, IF at = 0 THEN 0 ELSE at - 1),
                 Drop(authority, at), after)

\* The authority ends at the first "/", "?" or "#".
UrlSpecial(scheme, rest) ==
  LET aEnd == FirstOf(rest, {"/", "?", "#"})
  IN UrlAuthority(scheme, Take(rest, aEnd - 1), Drop(rest, aEnd - 1))

UrlWithScheme(input, scheme) ==
  IF scheme = <<>> THEN ParseFailure
  ELSE IF scheme \notin {S_http, S_https}
  THEN [ok |-> TRUE, protocol |-> scheme \o <<":">>, hostname |-> <<>>,
        href |-> scheme \o Drop(input, Len(scheme))]
  ELSE UrlSpecial(scheme, SkipSlashes(Drop(input, Len(scheme) + 1)))

UrlParse(input) == UrlWithScheme(input, UrlScheme(input))


(***************************************************************************)
(* Text functions of the content script (content.js 23-136)                *)
(***************************************************************************)
Min(s) == CHOOSE x \in s : \A y \in s : x <= y
Max(s) == CHOOSE x \in s : \A y \in s : x >= y

\* The index of the last character of the longest run of characters of a
\* class that starts at p; p - 1 when the character at p is not of it.
RunEnd(text, p, Class(_)) ==
  LET stops == {i \in p..Len(text) : ~Class(text[i])}
  IN IF stops = {} THEN Len(text) ELSE Min(stops) - 1

\* Whether text holds s at position p, letter case ignored (the i flag).
HasAt(text, p, s) ==
  /\ p >= 1
  /\ p + Len(s) - 1 <= Len(text)
  /\ ToLower(SubSeq(text, p, p + Len(s) - 1)) = s

\* The character classes of URL_REGEX.
HostClass == {"-", "@", ":", "%", ".", "_", "+", "~", "#", "="}
TailClass == {"-", "@", ":", "%", "_", "+", ".", "~", "#", "?", "&", "/", "=", "(", ")"}

IsHostChar(c) == IsAlnum(c) \/ c \in HostClass
IsTailChar(c) == IsAlnum(c) \/ c \in TailClass
IsWordChar(c) == IsAlnum(c) \/ c = "_"
IsLabelChar(c) == IsAlnum(c) \/ c = "-"

\* \b after the word character at e.
BoundaryAfter(text, e) == e = Len(text) \/ ~IsWordChar(text[e + 1])

\* \.[a-z]{2,63}\b with the "." at d: the index of the last letter, or 0.
TldEnd(text, d) ==
  LET e == RunEnd(text, d + 1, IsAlpha)
  IN IF e - d >= 2 /\ e - d <= 63 /\ BoundaryAfter(text, e) THEN e ELSE 0

\* [a-zA-Z0-9][-a-zA-Z0-9@:%._+~#=]{0,255}\.[a-z]{2,63}\b from q: the
\* greedy class gives back characters down to the last "." that a top
\* level domain can follow.  The index of its last letter, or 0.
HostEnd(text, q) ==
  IF q > Len(text) \/ q < 1 THEN 0
  ELSE IF ~IsAlnum(text[q]) THEN 0
  ELSE LET dots == {d \in (q + 1)..(RunEnd(text, q + 1, IsHostChar)) :
                      /\ d - (q + 1) <= 255
                      /\ text[d] = "."
                      /\ TldEnd(text, d) > 0}
       IN IF dots = {} THEN 0 ELSE TldEnd(text, Max(dots))

\* The host from q and the trailing class: the index of the last character
\* matched, or 0.
TailFrom(text, e) == IF e = 0 THEN 0 ELSE RunEnd(text, e + 1, IsTailChar)

PrefixedEnd(text, q) == TailFrom(text, HostEnd(text, q))

\* https?:\/\/ at p: the position after it, or 0.
SchemePrefix(text, p) ==
  IF HasAt(text, p, <<"h", "t", "t", "p", "s", ":", "/", "/">>) THEN p + 8
  ELSE IF HasAt(text, p, <<"h", "t", "t", "p", ":", "/", "/">>) THEN p + 7
  ELSE 0

\* www\. at p: the position after it, or 0.
WwwPrefix(text, p) == IF HasAt(text, p, <<"w", "w", "w", ".">>) THEN p + 4 ELSE 0

\* The first of two alternatives that matches: x when it is a position.
OrElse(x, y) == IF x > 0 THEN x ELSE y

\* The first alternative of URL_REGEX tried at p, its prefixes in the
\* order of backtracking: scheme and www., scheme alone, www. alone.
PrefixedAt(text, p) ==
  OrElse(IF SchemePrefix(text, p) > 0 /\ WwwPrefix(text, SchemePrefix(text, p)) > 0
         THEN PrefixedEnd(text, WwwPrefix(text, SchemePrefix(text, p)))
         ELSE 0,
         OrElse(IF SchemePrefix(text, p) > 0
                THEN PrefixedEnd(text, SchemePrefix(text, p))
                ELSE 0,
                IF WwwPrefix(text, p) > 0
                THEN PrefixedEnd(text, WwwPrefix(text, p))
                ELSE 0))

\* The top level domains of the second alternative of URL_REGEX.
RegexTlds ==
  {<<"c", "o", "m">>, <<"o", "r", "g">>, <<"n", "e", "t">>, <<"e", "d", "u">>, <<"g", "o", "v">>, <<"c", "o">>, <<"i", "o">>, <<"a", "i">>, <<"a", "p", "p">>,
   <<"d", "e", "v">>, <<"m", "e">>, <<"i", "n", "f", "o">>, <<"b", "i", "z">>, <<"x", "y", "z">>, <<"o", "n", "l", "i", "n", "e">>, <<"s", "i", "t", "e">>, <<"t", "e", "c", "h">>,
   <<"s", "t", "o", "r", "e">>, <<"b", "l", "o", "g">>, <<"s", "h", "o", "p">>, <<"c", "l", "u", "b">>, <<"l", "i", "v", "e">>, <<"n", "e", "w", "s">>, <<"s", "o", "c", "i", "a", "l">>,
   <<"l", "i", "n", "k">>, <<"p", "a", "g", "e">>, <<"w", "e", "b">>, <<"c", "l", "o", "u", "d">>, <<"s", "p", "a", "c", "e">>, <<"w", "o", "r", "l", "d">>, <<"p", "r", "o">>, <<"g", "g">>,
   <<"t", "v">>, <<"b", "e">>}

\* (?<![a-zA-Z0-9@.]) at p.
BareLookbehind(text, p) ==
  p = 1 \/ ~(IsAlnum(text[p - 1]) \/ text[p - 1] \in {"@", "."})

\* Whether the characters from p to the "." at d are labels, each
\* [a-zA-Z0-9][-a-zA-Z0-9]* and followed by ".".
LabelsTo(text, p, d) ==
  /\ d > p
  /\ text[d] = "."
  /\ \A i \in p..(d - 1) :
       /\ IsLabelChar(text[i]) \/ text[i] = "."
       /\ (i = p \/ text[i - 1] = ".") => IsAlnum(text[i])

\* A listed top level domain and \b after the "." at d: the index of its
\* last letter, or 0.
ListedTldEnd(text, d) ==
  LET e == RunEnd(text, d + 1, IsWordChar)
  IN IF ToLower(SubSeq(text, d + 1, e)) \in RegexTlds THEN e ELSE 0

\* (?:[/?#][-a-zA-Z0-9@:%_+.~#?&/=()]*)? after the character at e.
BareTailEnd(text, e) ==
  IF e < Len(text) /\ text[e + 1] \in {"/", "?", "#"}
  THEN RunEnd(text, e + 2, IsTailChar)
  ELSE e

\* The second alternative of URL_REGEX tried at p: as many labels as a
\* listed top level domain can follow.
BareAt(text, p) ==
  IF ~BareLookbehind(text, p) THEN 0
  ELSE LET dots == {d \in (p + 1)..Len(text) :
                      LabelsTo(text, p, d) /\ ListedTldEnd(text, d) > 0}
       IN IF dots = {} THEN 0
          ELSE BareTailEnd(text, ListedTldEnd(text, Max(dots)))

\* URL_REGEX tried at p: the index of the last character matched, or 0.
MatchEndAt(text, p) == OrElse(PrefixedAt(text, p), BareAt(text, p))

NoMatch == [start |-> 0, end |-> 0]

\* URL_REGEX.exec(text) with lastIndex = from: the leftmost match that
\* starts after the first `from` characters.
RECURSIVE ExecScan(_, _)
ExecAt(text, p, e) ==
  IF e > 0 THEN [start |-> p, end |-> e] ELSE ExecScan(text, p + 1)

ExecScan(text, p) ==
  IF p > Len(text) THEN NoMatch ELSE ExecAt(text, p, MatchEndAt(text, p))

RegexExec(text, from) == ExecScan(text, from + 1)

FILE_EXTENSIONS ==
  {<<"j", "s">>, <<"c", "s", "s">>, <<"p", "n", "g">>, <<"j", "p", "g">>, <<"j", "p", "e", "g">>, <<"g", "i", "f">>, <<"s", "v", "g">>, <<"w", "e", "b", "p">>, <<"i", "c", "o">>,
   <<"w", "o", "f", "f">>, <<"w", "o", "f", "f", "2">>, <<"t", "t", "f">>, <<"e", "o", "t">>, <<"m", "a", "p">>}

VALID_TLDS ==
  {<<"c", "o", "m">>, <<"o", "r", "g">>, <<"n", "e", "t">>, <<"e", "d", "u">>, <<"g", "o", "v">>, <<"c", "o">>, <<"i", "o">>, <<"a", "i">>, <<"a", "p", "p">>, <<"d", "e", "v">>,
   <<"m", "e">>, <<"i", "n", "f", "o">>, <<"b", "i", "z">>, <<"u", "s">>, <<"u", "k">>, <<"c", "a">>, <<"a", "u">>, <<"d", "e">>, <<"f", "r">>, <<"i", "t">>,
   <<"e", "s">>, <<"n", "l">>, <<"r", "u">>, <<"j", "p">>, <<"c", "n">>, <<"i", "n">>, <<"b", "r">>, <<"m", "x">>, <<"k", "r">>, <<"t", "v">>,
   <<"x", "y", "z">>, <<"o", "n", "l", "i", "n", "e">>, <<"s", "i", "t", "e">>, <<"t", "e", "c", "h">>, <<"s", "t", "o", "r", "e">>, <<"b", "l", "o", "g">>, <<"s", "h", "o", "p">>, <<"c", "l", "u", "b">>,
   <<"l", "i", "v", "e">>, <<"n", "e", "w", "s">>, <<"s", "o", "c", "i", "a", "l">>, <<"l", "i", "n", "k">>, <<"p", "a", "g", "e">>, <<"w", "e", "b">>, <<"c", "l", "o", "u", "d">>, <<"s", "p", "a", "c", "e">>,
   <<"w", "o", "r", "l", "d">>, <<"p", "r", "o">>, <<"g", "g">>, <<"b", "e">>}

\* isFileExtension: /\.(js|css|...)$/i
IsFileExtension(text) ==
  \E ext \in FILE_EXTENSIONS : EndsWith(ToLower(text), <<".">> \o ext)

\* String.prototype.trim for the blank characters of the model.
Blank == {" "}

Trim(text) ==
  LET inked == {i \in DOMAIN text : text[i] \notin Blank}
  IN IF inked = {} THEN <<>> ELSE SubSeq(text, Min(inked), Max(inked))

\* The one character U+2026.
Ellipsis == "hellip"

\* isTruncatedUrl: /\.{2,}$/ or a final ellipsis, after trim.
IsTruncatedUrl(text) ==
  \/ EndsWith(Trim(text), <<".", ".">>)
  \/ EndsWith(Trim(text), <<Ellipsis>>)

LastPart(parts) == parts[Len(parts)]

\* The tail of sanitizeUrl, after new URL(url).
SanitizeParsed(parsed) ==
  IF ~parsed.ok THEN NoUrl
  ELSE IF parsed.protocol \notin {<<"h", "t", "t", "p", ":">>, <<"h", "t", "t", "p", "s", ":">>} THEN NoUrl
  ELSE IF /\ LastPart(Split(ToLower(parsed.hostname), ".")) \notin VALID_TLDS
          /\ Len(Split(ToLower(parsed.hostname), ".")) < 2
  THEN NoUrl
  ELSE parsed.href

\* sanitizeUrl: the href of the parsed url, or NoUrl for null.
sanitizeUrl(urlString) ==
  IF HasAt(urlString, 1, <<"h", "t", "t", "p", ":", "/", "/">>) \/ HasAt(urlString, 1, <<"h", "t", "t", "p", "s", ":", "/", "/">>)
  THEN SanitizeParsed(UrlParse(urlString))
  ELSE SanitizeParsed(UrlParse(<<"h", "t", "t", "p", "s", ":", "/", "/">> \o urlString))

\* escapeHtml: the serialization of a text node.
EscapeChar(c) ==
  CASE c = "&" -> <<"&", "a", "m", "p", ";">>
    [] c = "<" -> <<"&", "l", "t", ";">>
    [] c = ">" -> <<"&", "g", "t", ";">>
    [] OTHER -> <<c>>

RECURSIVE escapeHtml(_)
escapeHtml(text) ==
  IF Len(text) = 0 THEN <<>>
  ELSE EscapeChar(text[1]) \o escapeHtml(Tail(text))

(***************************************************************************)
(* The markup linkifyText builds and its parse by the innerHTML setter     *)
(* (content.js 228-265, 286-287).  The markup is kept as its pieces, each  *)
(* with the source text of its attribute values and of its content; the    *)
(* parse decodes the character references of each.  Of the named           *)
(* references the model knows amp, lt, gt and quot; numeric references and *)
(* the other names are not among its inputs.                               *)
(***************************************************************************)
NamedRefs ==
  << [name |-> <<"a", "m", "p", ";">>, char |-> "&"],
     [name |-> <<"l", "t", ";">>, char |-> "<"],
     [name |-> <<"g", "t", ";">>, char |-> ">"],
     [name |-> <<"q", "u", "o", "t", ";">>, char |-> "\""],
     [name |-> <<"a", "m", "p">>, char |-> "&"],
     [name |-> <<"l", "t">>, char |-> "<"],
     [name |-> <<"g", "t">>, char |-> ">"],
     [name |-> <<"q", "u", "o", "t">>, char |-> "\""] >>

\* The longest named reference that follows the "&" at the head of s: its
\* index in NamedRefs, or 0.
RefAt(s) ==
  LET found == {k \in DOMAIN NamedRefs : StartsWith(Tail(s), NamedRefs[k].name)}
  IN IF found = {} THEN 0 ELSE Min(found)

\* In an attribute value a reference without ";" that "=" or a letter or
\* digit follows is left as written.
RefLeftAsWritten(s, k, inAttribute) ==
  /\ inAttribute
  /\ LastPart(NamedRefs[k].name) # ";"
  /\ Len(s) > 1 + Len(NamedRefs[k].name)
  /\ \/ s[2 + Len(NamedRefs[k].name)] = "="
     \/ IsAlnum(s[2 + Len(NamedRefs[k].name)])

RECURSIVE DecodeCharRefs(_, _)
DecodeCharRefs(s, inAttribute) ==
  IF Len(s) = 0 THEN <<>>
  ELSE IF s[1] # "&" THEN <<s[1]>> \o DecodeCharRefs(Tail(s), inAttribute)
  ELSE IF RefAt(s) = 0 THEN <<s[1]>> \o DecodeCharRefs(Tail(s), inAttribute)
  ELSE IF RefLeftAsWritten(s, RefAt(s), inAttribute)
  THEN <<s[1]>> \o DecodeCharRefs(Tail(s), inAttribute)
  ELSE <<NamedRefs[RefAt(s)].char>>
       \o DecodeCharRefs(Drop(s, 1 + Len(NamedRefs[RefAt(s)].name)), inAttribute)

S_rel == "noopener noreferrer"

\* A piece of markup: escaped text, or an <a> element with the source of
\* its attributes.  newTab is settings.openInNewTab as linkifyText read it.
TextPiece(html) ==
  [kind |-> "text", html |-> html, href |-> <<>>, dataUrl |-> <<>>,
   target |-> "", rel |-> "", style |-> "", newTab |-> FALSE]

AnchorPiece(sanitizedUrl, matchedUrl, st) ==
  [kind |-> "a", html |-> escapeHtml(matchedUrl),
   href |-> sanitizedUrl, dataUrl |-> sanitizedUrl,
   target |-> IF st.openInNewTab THEN "_blank" ELSE "",
   rel |-> S_rel, style |-> st.linkStyle, newTab |-> st.openInNewTab]

\* The candidates linkifyText passes over.
SkipsMatch(matchedUrl) ==
  \/ IsFileExtension(matchedUrl)
  \/ IsTruncatedUrl(matchedUrl)
  \/ sanitizeUrl(matchedUrl) = NoUrl

\* The loop of linkifyText: `from` is URL_REGEX.lastIndex, lastIndex the
\* number of characters of text already copied to the result.
RECURSIVE LinkifyFrom(_, _, _, _)
RECURSIVE LinkifyMatch(_, _, _, _)
LinkifyMatch(text, match, lastIndex, st) ==
  IF match = NoMatch
  THEN <<TextPiece(escapeHtml(Drop(text, lastIndex)))>>
  ELSE IF SkipsMatch(SubSeq(text, match.start, match.end))
  THEN LinkifyFrom(text, match.end, lastIndex, st)
  ELSE <<TextPiece(escapeHtml(SubSeq(text, lastIndex + 1, match.start - 1))),
         AnchorPiece(sanitizeUrl(SubSeq(text, match.start, match.end)),
                     SubSeq(text, match.start, match.end), st)>>
       \o LinkifyFrom(text, match.end, match.end, st)

LinkifyFrom(text, from, lastIndex, st) ==
  LinkifyMatch(text, RegexExec(text, from), lastIndex, st)

linkifyText(text, st) == LinkifyFrom(text, 0, 0, st)

\* linkedHtml.includes('instaclick-link'), for texts that do not hold these
\* words themselves.
HasLinks(pieces) == \E i \in DOMAIN pieces : pieces[i].kind = "a"

\* The node the parser makes of a piece.
ParsePiece(piece) ==
  [kind |-> piece.kind,
   text |-> DecodeCharRefs(piece.html, FALSE),
   href |-> DecodeCharRefs(piece.href, TRUE),
   dataUrl |-> DecodeCharRefs(piece.dataUrl, TRUE),
   target |-> piece.target, rel |-> piece.rel, style |-> piece.style,
   newTab |-> piece.newTab, dead |-> FALSE]

\* temp.innerHTML = linkedHtml: the child nodes; empty text makes no node.
RECURSIVE ParseMarkup(_)
ParseMarkup(pieces) ==
  IF Len(pieces) = 0 THEN <<>>
  ELSE IF pieces[1].kind = "text" /\ Len(pieces[1].html) = 0
  THEN ParseMarkup(Tail(pieces))
  ELSE <<ParsePiece(pieces[1])>> \o ParseMarkup(Tail(pieces))

\* A text node as the page makes it.
TextNode(text) ==
  [kind |-> "text", text |-> text, href |-> <<>>, dataUrl |-> <<>>,
   target |-> "", rel |-> "", style |-> "", newTab |-> FALSE,
   dead |-> FALSE]

(***************************************************************************)
(* State                                                                   *)
(***************************************************************************)
VARIABLES
  \* LinkPreviewManager (preview.js)
  cache,          \* Map url -> [data, timestamp]
  preloadQueue,   \* Set of urls, in insertion order
  isPreloading,
  drains,         \* the processPreloadQueue calls suspended at an await
  restartTimers,  \* pending setTimeout(() => processPreloadQueue(), 300)
  currentUrl,
  currentLink,    \* the anchor the card was shown for
  card,           \* the preview card element and what it displays
  qrPopup,        \* the QR popup element
  showFetches,    \* the show() calls suspended at await fetchPreviewData
  abortedFetches, \* per suspended show(), whether its AbortController was aborted
  deadLinks,      \* urls whose anchors carry instaclick-dead-link
  apiRequests,    \* urls sent to the external metadata service so far
  expandBtn,      \* the card's .preview-expand-btn
  expandedDiv,    \* the card's .preview-expanded-url
  expandedText,   \* the card's .expanded-url-text
  expandCalls,    \* the expandCurrentUrl calls suspended at await sendMessage
  hideTimers,     \* pending setTimeout(() => this.hide(), 100) of card clicks
  \* environment
  now,            \* Date.now()
  runtimeValid,   \* chrome.runtime?.id
  \* content script (content.js)
  settings,       \* let settings
  spanNodes,      \* the child nodes of each span of the page
  processed,      \* elements carrying data-instaclick-processed
  queue,          \* LinkProcessor.queue, a Set in insertion order
  isProcessing,   \* LinkProcessor.isProcessing
  debounceTimer,  \* debounce's timeout: the id of the pending timer
  framePending,   \* the requestAnimationFrame callbacks pending
  linkCount,
  regexLastIndex, \* URL_REGEX.lastIndex between handlers
  \* background service worker (README.md 218-491)
  syncStore,      \* chrome.storage.sync
  localStore,     \* chrome.storage.local
  requests,       \* the message handlers suspended at an await
  tabNotified,    \* per tab, the settings of the last SETTINGS_UPDATED it received
  lastResponse,   \* the response sent last
  clicks,         \* the TRACK_CLICK messages received so far
  \* hovering (content.js 398-498)
  pointer,        \* the element the pointer is over
  hoverDelayTimeout,
  \* the generic metadata handler (preview.js 575-638)
  genericCalls,   \* the calls of fetchGenericPreview and where they stand
  \* url change detection (content.js 563-592)
  locationHref,   \* location.href
  lastUrl,        \* onUrlChange's lastUrl
  lastBadge,      \* the UPDATE_BADGE message the last history call sent
  \* the popup (popup.js)
  popupSettings,  \* PopupController's this.settings
  checked,        \* the checked state of the popup's switches
  popupPending,   \* the updateSetting calls suspended at await sendMessage
  \* history
  lastCall,       \* what the last observed preloadLink call was given and did
  lastSkipped     \* the marked elements the last content handler's add() met

pvars == <<cache, preloadQueue, isPreloading, drains, restartTimers,
           currentUrl, currentLink, card, qrPopup, showFetches, abortedFetches,
           deadLinks, apiRequests, expandBtn, expandedDiv, expandedText,
           expandCalls, hideTimers>>
evars == <<now, runtimeValid>>
cvars == <<settings, spanNodes, processed, queue, isProcessing, debounceTimer,
           framePending, linkCount, regexLastIndex, lastSkipped>>
bvars == <<syncStore, localStore, requests, tabNotified, lastResponse, clicks>>
hvars == <<pointer, hoverDelayTimeout>>
gvars == <<genericCalls>>
nvars == <<locationHref, lastUrl, lastBadge>>
uvars == <<popupSettings, checked, popupPending>>
vars == <<pvars, evars, lastCall, cvars, bvars, hvars, gvars, nvars, uvars>>

(***************************************************************************)
(* Bounds of the model                                                     *)
(***************************************************************************)
MaxTimers == 1       \* pending restart timers
MaxInFlight == 2     \* show() calls waiting for the metadata service
MaxLinkCount == 2    \* anchors counted before the page stops changing
MaxRequests == 2     \* handlers of the service worker suspended at once
MaxEntries == 3      \* clicks the service worker is sent
MaxGenericCalls == 2 \* calls of fetchGenericPreview under way
MaxExpandCalls == 1  \* calls of expandCurrentUrl under way
MaxHideTimers == 1   \* pending hide timers of card clicks
MaxPopupPending == 2 \* calls of updateSetting under way

\* The random parts of history entry ids.
RandomSuffixes == {"r1"}

(***************************************************************************)
(* Urls handed to the preview manager: the data-instaclick-url of anchors, *)
(* which are hrefs produced by new URL (content.js sanitizeUrl).           *)
(***************************************************************************)
UrlA == <<"h","t","t","p","s",":","/","/","e","x","a","m","p","l","e",".","c","o","m","/","a">>
UrlY == <<"h","t","t","p","s",":","/","/","y","o","u","t","u",".","b","e","/","v","1">>
UrlI == <<"h","t","t","p","s",":","/","/","w","w","w",".","i","n","s","t","a","g","r","a","m",".","c","o","m","/","p","/","x">>

PreviewUrls == {UrlA, UrlY, UrlI}

\* What the attribute parse makes of https://example.com/?a&lt
UrlQ == <<"h", "t", "t", "p", "s", ":", "/", "/", "e", "x", "a", "m", "p", "l", "e", ".", "c", "o", "m", "/", "?", "a", "<">>

\* The urls of the anchors made of PageTexts.
ContentUrls == {UrlA, UrlQ}

\* The urls of the anchors made of ExampleTexts.
UrlPage == <<"h", "t", "t", "p", "s", ":", "/", "/", "e", "x", "a", "m", "p", "l", "e", ".", "c", "o", "m", "/", "p", "a", "g", "e">>
UrlBad == <<"h", "t", "t", "p", ":", "/", "/", "b", "a", "d", ".", ".", "e", "n", "d", "i", "n", "g", "/">>

ExampleUrls == {UrlPage, UrlBad}

\* A short url.
UrlShort == <<"h", "t", "t", "p", "s", ":", "/", "/", "b", "i", "t", ".", "l", "y", "/", "x">>

\* Urls on a listed site, on a subdomain of one, on a host whose last
\* label ends in the letters of a listed site, and on no such host.
UrlGitHub == <<"h", "t", "t", "p", "s", ":", "/", "/", "g", "i", "t", "h", "u", "b", ".", "c", "o", "m", "/", "r">>
UrlMobile == <<"h", "t", "t", "p", "s", ":", "/", "/", "m", ".", "y", "o", "u", "t", "u", "b", "e", ".", "c", "o", "m", "/", "w">>
UrlNetflix == <<"h", "t", "t", "p", "s", ":", "/", "/", "n", "e", "t", "f", "l", "i", "x", ".", "c", "o", "m", "/", "t">>
UrlOrg == <<"h", "t", "t", "p", "s", ":", "/", "/", "e", "x", "a", "m", "p", "l", "e", ".", "o", "r", "g", "/">>

DispatchUrls == {UrlGitHub, UrlMobile, UrlNetflix, UrlOrg}

\* Six urls of one generic site, for the batches of the preload queue.
S_exampleRoot == <<"h","t","t","p","s",":","/","/","e","x","a","m","p","l","e",".","c","o","m","/">>

DrainUrl(i) == S_exampleRoot \o <<DigitChars[i + 1]>>

DrainUrls == {DrainUrl(i) : i \in 1..6}

KnownUrls ==
  PreviewUrls \cup DrainUrls \cup ContentUrls \cup ExampleUrls \cup DispatchUrls

S_www == <<"w","w","w",".">>
S_instagram == <<"i","n","s","t","a","g","r","a","m",".","c","o","m">>

(***************************************************************************)
(* Cache (preview.js 84-101)                                               *)
(***************************************************************************)
cacheDuration == 30 * 60 * 1000

MapPut(f, k, v) == [x \in (DOMAIN f) \cup {k} |-> IF x = k THEN v ELSE f[x]]
MapDelete(f, k) == [x \in (DOMAIN f) \ {k} |-> f[x]]
EmptyMap == [x \in {} |-> x]

\* Set.prototype.add / delete on a Set kept in insertion order.
SetAdd(q, x) == IF x \in Range(q) THEN q ELSE Append(q, x)
SetDelete(q, x) ==
  IF x \in Range(q)
  THEN LET i == CHOOSE k \in DOMAIN q : q[k] = x
       IN SubSeq(q, 1, i - 1) \o SubSeq(q, i + 1, Len(q))
  ELSE q

NoData == [type |-> "none"]

CacheHas(m, url) == url \in DOMAIN m.cache

SetCache(m, url, data, t) ==
  [m EXCEPT !.cache = MapPut(m.cache, url, [data |-> data, timestamp |-> t])]

\* Variant: an entry expires on reaching the time to live.
CacheExpiredAtLimit(entry, t) == t - entry.timestamp >= cacheDuration

\* Whether a cache entry read at time t is past its time to live.
CacheExpired(entry, t) == t - entry.timestamp > cacheDuration

\* getFromCache: the data, or NoData for a miss; an expired entry is deleted.
GetFromCache(m, url, t) ==
  IF ~CacheHas(m, url) THEN [m |-> m, data |-> NoData]
  ELSE IF CacheExpired(m.cache[url], t)
  THEN [m |-> [m EXCEPT !.cache = MapDelete(m.cache, url)], data |-> NoData]
  ELSE [m |-> m, data |-> m.cache[url].data]

\* markDeadLink: every anchor of the page with this url gets the class.
MarkDeadLink(m, url) == [m EXCEPT !.deadLinks = m.deadLinks \cup {url}]

(***************************************************************************)
(* Metadata resolution (preview.js 540-776)                                *)
(***************************************************************************)
\* new URL(url) for the urls of the model, parsed once.
ParsedPreviewUrls == [u \in KnownUrls |-> UrlParse(u)]

NewURL(url) == ParsedPreviewUrls[url]

Hostname(url) == NewURL(url).hostname

\* hostname.replace('www.', '')
PreviewDomain(url) == ReplaceFirst(Hostname(url), S_www)

SiteHandlers ==
  << [site |-> <<"y","o","u","t","u","b","e",".","c","o","m">>, type |-> "youtube"],
     [site |-> <<"y","o","u","t","u",".","b","e">>, type |-> "youtube"],
     [site |-> <<"t","w","i","t","t","e","r",".","c","o","m">>, type |-> "twitter"],
     [site |-> <<"x",".","c","o","m">>, type |-> "twitter"],
     [site |-> <<"g","i","t","h","u","b",".","c","o","m">>, type |-> "github"],
     [site |-> <<"r","e","d","d","i","t",".","c","o","m">>, type |-> "reddit"],
     [site |-> <<"s","p","o","t","i","f","y",".","c","o","m">>, type |-> "spotify"],
     [site |-> <<"t","i","k","t","o","k",".","c","o","m">>, type |-> "tiktok"],
     [site |-> <<"l","i","n","k","e","d","i","n",".","c","o","m">>, type |-> "linkedin"] >>

\* getSiteHandler: the type of the first handler whose site the domain
\* includes, or "none".
GetSiteHandler(domain) ==
  IF \E i \in DOMAIN SiteHandlers : Includes(domain, SiteHandlers[i].site)
  THEN SiteHandlers[CHOOSE i \in DOMAIN SiteHandlers :
                      /\ Includes(domain, SiteHandlers[i].site)
                      /\ \A j \in 1..(i - 1) : ~Includes(domain, SiteHandlers[j].site)].type
  ELSE "none"

\* The site handlers build their record from the url alone.
SitePreview(url, type) ==
  [type |-> type, url |-> url, source |-> "handler", image |-> "derived",
   is404 |-> FALSE]

\* fetchGenericPreview's first branch: the fixed record for instagram.com.
IsInstagramDomain(domain) == Includes(domain, S_instagram)

InstagramPreview(url) ==
  [type |-> "instagram", url |-> url, source |-> "local", image |-> "null",
   is404 |-> FALSE]

\* fetchPreviewData's dispatch: the site handler's type, "instagram" for
\* the fixed local record of fetchGenericPreview, or "generic" for the call
\* to the external metadata service.
DispatchDomain(domain, handler) ==
  IF handler # "none" THEN handler
  ELSE IF IsInstagramDomain(domain) THEN "instagram"
  ELSE "generic"

Dispatch(url) ==
  DispatchDomain(PreviewDomain(url), GetSiteHandler(PreviewDomain(url)))

\* The dispatch of the urls of the model, computed once.
PreviewDispatch == [u \in KnownUrls |-> Dispatch(u)]

DispatchOf(url) == PreviewDispatch[url]

\* Whether fetchPreviewData(url) calls the external metadata service.
NeedsNetwork(url) == DispatchOf(url) = "generic"

\* fetchPreviewData for a url resolved without a network call.
LocalPreview(url) ==
  IF DispatchOf(url) = "instagram" THEN InstagramPreview(url)
  ELSE SitePreview(url, DispatchOf(url))

\* What the external call can do: throw (network error, unparsable body),
\* answer status 'fail' with or without a not-found message, or answer
\* with data that has or lacks an image.
ApiOutcomes == {"throw", "fail404", "failOther", "okImage", "okNoImage"}

\* The outcomes the state machine of the manager draws from: one for each
\* kind of record (fallback, dead link, api data).
PreviewOutcomes == {"throw", "fail404", "okImage"}

\* fetchGenericPreview after the external call.
GenericPreview(url, outcome) ==
  CASE outcome = "fail404" ->
         [type |-> "website", url |-> url, source |-> "notfound",
          image |-> "null", is404 |-> TRUE]
    [] outcome \in {"throw", "failOther"} ->
         [type |-> "website", url |-> url, source |-> "fallback",
          image |-> "screenshot", is404 |-> FALSE]
    [] outcome = "okImage" ->
         [type |-> "website", url |-> url, source |-> "api",
          image |-> "api", is404 |-> FALSE]
    [] OTHER ->
         [type |-> "website", url |-> url, source |-> "api",
          image |-> "screenshot", is404 |-> FALSE]


(***************************************************************************)
(* The manager's fields as one record, so that a method and the methods    *)
(* it calls compose into one step.                                         *)
(***************************************************************************)
Manager ==
  [cache |-> cache, preloadQueue |-> preloadQueue, isPreloading |-> isPreloading,
   drains |-> drains, restartTimers |-> restartTimers, currentUrl |-> currentUrl,
   card |-> card, showFetches |-> showFetches, deadLinks |-> deadLinks,
   apiRequests |-> apiRequests, currentLink |-> currentLink,
   qrPopup |-> qrPopup, abortedFetches |-> abortedFetches,
   expandBtn |-> expandBtn, expandedDiv |-> expandedDiv,
   expandedText |-> expandedText, expandCalls |-> expandCalls,
   hideTimers |-> hideTimers]

Commit(m) ==
  /\ cache' = m.cache
  /\ preloadQueue' = m.preloadQueue
  /\ isPreloading' = m.isPreloading
  /\ drains' = m.drains
  /\ restartTimers' = m.restartTimers
  /\ currentUrl' = m.currentUrl
  /\ card' = m.card
  /\ showFetches' = m.showFetches
  /\ deadLinks' = m.deadLinks
  /\ apiRequests' = m.apiRequests
  /\ currentLink' = m.currentLink
  /\ qrPopup' = m.qrPopup
  /\ abortedFetches' = m.abortedFetches
  /\ expandBtn' = m.expandBtn
  /\ expandedDiv' = m.expandedDiv
  /\ expandedText' = m.expandedText
  /\ expandCalls' = m.expandCalls
  /\ hideTimers' = m.hideTimers

RemoveAt(s, i) == Take(s, i - 1) \o Drop(s, i)

(***************************************************************************)
(* Preloading (preview.js 25-78)                                           *)
(***************************************************************************)
PreloadBatch == 5

\* Variant: preloadLink without the cache test.
PreloadSkipsUncachedTest(m, url) ==
  \/ url = NoUrl
  \/ url \in Range(m.preloadQueue)
  \/ ~NewURL(url).ok
  \/ Includes(Hostname(url), S_instagram)

\* Variant: preloadLink without the excluded domain.
PreloadSkipsNoExclusion(m, url) ==
  \/ url = NoUrl
  \/ CacheHas(m, url)
  \/ url \in Range(m.preloadQueue)
  \/ ~NewURL(url).ok

\* preloadLink's early returns: no url, cached, queued, unparsable, or on
\* the excluded domain.
PreloadSkips(m, url) ==
  \/ url = NoUrl
  \/ CacheHas(m, url)
  \/ url \in Range(m.preloadQueue)
  \/ ~NewURL(url).ok
  \/ Includes(Hostname(url), S_instagram)

\* The urls one call of processPreloadQueue takes: Array.from(queue).slice(0, 5).
DrainBatch(q) ==
  Take(q, IF Len(q) < PreloadBatch THEN Len(q) ELSE PreloadBatch)

\* Variant: the end of processPreloadQueue without the restart timer.
FinishDrainNoRestart(m, valid) == [m EXCEPT !.isPreloading = FALSE]

\* The end of processPreloadQueue, after its loop.
FinishDrain(m, valid) ==
  LET m1 == [m EXCEPT !.isPreloading = FALSE]
  IN IF Len(m1.preloadQueue) > 0 /\ valid
     THEN [m1 EXCEPT !.restartTimers = @ + 1]
     ELSE m1

\* Whether the drain loop fetches a url it has taken from the queue.
DrainFetches(m, url) == ~CacheHas(m, url)

\* The loop of processPreloadQueue from the top of an iteration over the
\* urls left, up to its next await on a timer or on the network.  A url
\* resolved by a site handler is fetched and cached before any other code
\* runs, as its promise settles without leaving the script.
DrainIteration(m, urls, t, valid) ==
  IF Len(urls) = 0 THEN FinishDrain(m, valid)
  ELSE
    LET url == Head(urls)
        m1 == [m EXCEPT !.preloadQueue = SetDelete(m.preloadQueue, url)]
    IN IF ~DrainFetches(m1, url)
       THEN [m1 EXCEPT !.drains =
               Append(@, [cur |-> url, urls |-> Tail(urls), pc |-> "pace"])]
       ELSE IF NeedsNetwork(url)
       THEN [m1 EXCEPT !.apiRequests = @ \cup {url},
                       !.drains =
               Append(@, [cur |-> url, urls |-> Tail(urls), pc |-> "fetch"])]
       ELSE [SetCache(m1, url, LocalPreview(url), t) EXCEPT !.drains =
               Append(@, [cur |-> url, urls |-> Tail(urls), pc |-> "pace"])]

\* Variant: processPreloadQueue without the isPreloading test.
DrainGuardEmptyOnly(m) == Len(m.preloadQueue) = 0

\* processPreloadQueue's guard: another drain is running, or nothing to do.
DrainGuard(m) == m.isPreloading \/ Len(m.preloadQueue) = 0

\* processPreloadQueue up to its first await.
ProcessPreloadQueue(m, t, valid) ==
  IF DrainGuard(m) THEN m
  ELSE IF ~valid THEN [m EXCEPT !.preloadQueue = <<>>]
  ELSE DrainIteration([m EXCEPT !.isPreloading = TRUE],
                      DrainBatch(m.preloadQueue), t, valid)

PreloadLinkOp(m, url, t, valid) ==
  IF PreloadSkips(m, url) THEN m
  ELSE LET m1 == [m EXCEPT !.preloadQueue = SetAdd(m.preloadQueue, url)]
       IN IF ~m1.isPreloading THEN ProcessPreloadQueue(m1, t, valid) ELSE m1

\* The drain's await fetchPreviewData(url) settles: setCache, markDeadLink,
\* then the await on the 150 ms pacing timer.
DrainFetchDoneOp(m, i, outcome, t) ==
  LET d == m.drains[i]
      data == GenericPreview(d.cur, outcome)
      m1 == SetCache(m, d.cur, data, t)
      m2 == IF data.is404 THEN MarkDeadLink(m1, d.cur) ELSE m1
  IN [m2 EXCEPT !.drains[i].pc = "pace"]

\* The pacing timer fires: the next iteration of the loop, or its end.
DrainPaceDoneOp(m, i, t, valid) ==
  DrainIteration([m EXCEPT !.drains = RemoveAt(m.drains, i)],
                 m.drains[i].urls, t, valid)

(***************************************************************************)
(* Show and hide (preview.js 363-441, 473-534)                             *)
(***************************************************************************)
NoCard == [exists |-> FALSE, visible |-> FALSE, view |-> "loading", data |-> NoData]

\* The anchor show() is given: the one carrying data-instaclick-url = url.
NoLink == [dataUrl |-> NoUrl]
LinkElement(url) == [dataUrl |-> url]

\* encodeURIComponent of one character of a url of the model: letters,
\* digits and - _ . ! ~ * ' ( ) stay, the others become their escapes.
EncodeComponentChar(c) ==
  CASE c = ":" -> <<"%", "3", "A">>
    [] c = "/" -> <<"%", "2", "F">>
    [] c = "?" -> <<"%", "3", "F">>
    [] c = "#" -> <<"%", "2", "3">>
    [] c = "&" -> <<"%", "2", "6">>
    [] c = "=" -> <<"%", "3", "D">>
    [] c = "@" -> <<"%", "4", "0">>
    [] c = "+" -> <<"%", "2", "B">>
    [] c = "%" -> <<"%", "2", "5">>
    [] c = "<" -> <<"%", "3", "C">>
    [] c = ">" -> <<"%", "3", "E">>
    [] c = "\"" -> <<"%", "2", "2">>
    [] OTHER -> <<c>>

RECURSIVE encodeURIComponent(_)
encodeURIComponent(s) ==
  IF Len(s) = 0 THEN <<>>
  ELSE EncodeComponentChar(s[1]) \o encodeURIComponent(Tail(s))

\* `https://api.qrserver.com/v1/create-qr-code/?size=140x140&data=${...}`
QRUrl(url) ==
  <<"h", "t", "t", "p", "s", ":", "/", "/", "a", "p", "i", ".", "q", "r", "s", "e", "r", "v", "e", "r", ".", "c", "o", "m", "/", "v", "1", "/", "c", "r", "e", "a", "t", "e", "-", "q", "r", "-", "c", "o", "d", "e", "/", "?", "s", "i", "z", "e", "=", "1", "4", "0", "x", "1", "4", "0", "&", "d", "a", "t", "a", "=">>
    \o encodeURIComponent(url)

\* The popup and the src of its image.
NoQRPopup == [exists |-> FALSE, visible |-> FALSE, src |-> <<>>]

\* Variant: hideQRPopup leaves the popup as it is.
HideQRPopupNot(m) == m

\* hideQRPopup
HideQRPopup(m) == [m EXCEPT !.qrPopup.visible = FALSE]

\* toggleQRPopup: createQRPopup, then the popup is shown or hidden.
ToggleQRPopup(m) ==
  IF m.qrPopup.visible
  THEN [m EXCEPT !.qrPopup.exists = TRUE, !.qrPopup.visible = FALSE]
  ELSE [m EXCEPT !.qrPopup = [exists |-> TRUE, visible |-> TRUE,
                              src |-> QRUrl(m.currentUrl)]]

\* this.fetchController.abort().  The controller is the one the last show()
\* to reach the network made; the controllers of the earlier calls were
\* aborted when their successors were made.
AbortFetch(m) ==
  [m EXCEPT !.abortedFetches = [i \in DOMAIN m.abortedFetches |-> TRUE]]

\* createPreviewElement: the markup starts with the loading skeleton shown.
CreatePreviewElement(m) ==
  IF m.card.exists THEN m ELSE [m EXCEPT !.card.exists = TRUE]

ShowLoading(m) == [m EXCEPT !.card.view = "loading"]

RenderPreview(m, data) ==
  [m EXCEPT !.card.view = IF data.is404 THEN "error" ELSE "content",
            !.card.data = data]

\* The expand button as the card's markup and show() have it.
S_expandUrl == <<"E", "x", "p", "a", "n", "d", " ", "U", "R", "L">>
ExpandBtn == [textContent |-> S_expandUrl, disabled |-> FALSE]

\* show(): "Reset states" after hideQRPopup().
ResetExpand(m) ==
  [m EXCEPT !.expandedDiv.display = "none", !.expandBtn = ExpandBtn]

\* Variant: show(url) without the test of currentUrl after its await.
ShowResultNeverStale(m, url) == FALSE

\* Whether the continuation of show(url) drops the result it awaited.
ShowResultStale(m, url) == m.currentUrl # url

\* show(url) after await fetchPreviewData(url) has returned data.
ShowResultOp(m, url, data, t) ==
  IF ShowResultStale(m, url) THEN m
  ELSE LET m1 == RenderPreview(SetCache(m, url, data, t), data)
       IN IF data.is404 THEN MarkDeadLink(m1, url) ELSE m1

\* show(linkElement, url) up to its await on the network.  When new URL(url)
\* throws, fetchPreviewData rejects and the catch block of show throws again
\* at new URL(url) before it renders: the card keeps the loading skeleton.
ShowOp(m, url, t) ==
  IF url = NoUrl THEN m
  ELSE
    LET m0 == CreatePreviewElement([m EXCEPT !.currentUrl = url,
                                             !.currentLink = LinkElement(url)])
        m1 == ResetExpand(HideQRPopup(AbortFetch(m0)))
        got == GetFromCache(m1, url, t)
    IN IF got.data # NoData
       THEN [RenderPreview(got.m, got.data) EXCEPT !.card.visible = TRUE]
       ELSE LET m2 == [ShowLoading(got.m) EXCEPT !.card.visible = TRUE]
            IN IF ~NewURL(url).ok THEN m2
               ELSE IF NeedsNetwork(url)
               THEN [m2 EXCEPT !.showFetches = Append(@, url),
                               !.abortedFetches = Append(@, FALSE),
                               !.apiRequests = @ \cup {url}]
               ELSE ShowResultOp(m2, url, LocalPreview(url), t)

\* Variant: hide() leaves currentUrl and currentLink as they are.
HideKeepingUrl(m) == [HideQRPopup(m) EXCEPT !.card.visible = FALSE]

\* Variant: hide() also empties the cache.
HideEvicting(m) ==
  [m EXCEPT !.card.visible = FALSE, !.currentUrl = NoUrl, !.cache = EmptyMap]

HideOp(m) ==
  [HideQRPopup(m) EXCEPT !.card.visible = FALSE, !.currentUrl = NoUrl,
                         !.currentLink = NoLink]


(***************************************************************************)
(* The generic metadata handler (preview.js 575-638).  The values of the   *)
(* fields it reads from the parsed body are JavaScript values: undefined,  *)
(* null, a string, a number.                                               *)
(***************************************************************************)
JsUndefined == [kind |-> "undefined"]
JsNull == [kind |-> "null"]
JsString(s) == [kind |-> "string", value |-> s]
JsNumber(n) == [kind |-> "number", value |-> n]

Truthy(v) ==
  CASE v.kind = "string" -> v.value # <<>>
    [] v.kind = "number" -> v.value # 0
    [] OTHER -> FALSE

\* a || b
JsOr(a, b) == IF Truthy(a) THEN a ELSE b

\* `https://www.google.com/s2/favicons?domain=${domain}&sz=32`
FaviconUrl(domain) ==
  <<"h", "t", "t", "p", "s", ":", "/", "/", "w", "w", "w", ".", "g", "o", "o", "g", "l", "e", ".", "c", "o", "m", "/", "s", "2", "/", "f", "a", "v", "i", "c", "o", "n", "s", "?", "d", "o", "m", "a", "i", "n", "=">> \o domain \o <<"&", "s", "z", "=", "3", "2">>

\* `https://image.thum.io/get/width/400/crop/300/${encodeURIComponent(url)}`
ScreenshotUrl(url) ==
  <<"h", "t", "t", "p", "s", ":", "/", "/", "i", "m", "a", "g", "e", ".", "t", "h", "u", "m", ".", "i", "o", "/", "g", "e", "t", "/", "w", "i", "d", "t", "h", "/", "4", "0", "0", "/", "c", "r", "o", "p", "/", "3", "0", "0", "/">> \o encodeURIComponent(url)

\* `https://api.microlink.io?url=${encodeURIComponent(url)}`
ApiUrl(url) == <<"h", "t", "t", "p", "s", ":", "/", "/", "a", "p", "i", ".", "m", "i", "c", "r", "o", "l", "i", "n", "k", ".", "i", "o", "?", "u", "r", "l", "=">> \o encodeURIComponent(url)

\* The parsed bodies: null, or an object with status, message and data.
NoApiData == [present |-> FALSE, title |-> JsUndefined,
              description |-> JsUndefined, image |-> JsUndefined,
              logo |-> JsUndefined]

\* data with data.image.url = image and data.logo.url = logo.
ApiData(title, description, image, logo) ==
  [present |-> TRUE, title |-> title, description |-> description,
   image |-> image, logo |-> logo]

ApiResult(status, message, data) ==
  [kind |-> "object", status |-> status, message |-> message, data |-> data]

ApiMessages ==
  {JsUndefined, JsString(<<>>), JsString(<<"H", "T", "T", "P", " ", "4", "0", "4">>),
   JsString(<<"p", "a", "g", "e", " ", "n", "o", "t", " ", "f", "o", "u", "n", "d">>), JsString(<<"g", "e", "t", "a", "d", "d", "r", "i", "n", "f", "o", " ", "E", "N", "O", "T", "F", "O", "U", "N", "D", " ", "a", ".", "c", "o">>),
   JsString(<<"N", "o", "t", " ", "F", "o", "u", "n", "d">>), JsString(<<"t", "i", "m", "e", "o", "u", "t">>), JsNumber(500)}

ApiDatas ==
  {NoApiData,
   ApiData(JsUndefined, JsUndefined, JsUndefined, JsUndefined),
   ApiData(JsString(<<>>), JsString(<<>>), JsString(<<>>), JsString(<<>>)),
   ApiData(JsString(<<"T", "i", "t", "l", "e">>), JsString(<<"A", "b", "o", "u", "t">>),
           JsString(<<"h", "t", "t", "p", "s", ":", "/", "/", "c", "d", "n", ".", "e", "x", "a", "m", "p", "l", "e", ".", "c", "o", "m", "/", "i", ".", "p", "n", "g">>),
           JsString(<<"h", "t", "t", "p", "s", ":", "/", "/", "c", "d", "n", ".", "e", "x", "a", "m", "p", "l", "e", ".", "c", "o", "m", "/", "l", ".", "p", "n", "g">>))}

\* What response.json() resolves with, or "unparsable" when it rejects.
ApiBodies ==
  {[kind |-> "unparsable"], [kind |-> "null"]}
  \cup {ApiResult("fail", message, NoApiData) : message \in ApiMessages}
  \cup {ApiResult("success", JsUndefined, data) : data \in ApiDatas}
  \cup {ApiResult("success", JsString(<<"H", "T", "T", "P", " ", "4", "0", "4">>), NoApiData)}

\* What fetch(apiUrl) settles with: a rejection, or a response with a body.
NetworkError == [kind |-> "reject"]
ApiResponse(body) == [kind |-> "response", body |-> body]

\* Variant: every failure message is a not-found message.
Is404Always(errorMsg) == TRUE

\* errorMsg.includes('404') || errorMsg.includes('not found') ||
\* errorMsg.includes('ENOTFOUND')
Is404Message(errorMsg) ==
  \/ Includes(errorMsg, <<"4", "0", "4">>)
  \/ Includes(errorMsg, <<"n", "o", "t", " ", "f", "o", "u", "n", "d">>)
  \/ Includes(errorMsg, <<"E", "N", "O", "T", "F", "O", "U", "N", "D">>)

\* Whether the try block throws on the parsed body: a property of null is
\* read, or includes is called on a message that is no string.
BodyThrows(body) ==
  \/ body.kind \in {"unparsable", "null"}
  \/ /\ body.status = "fail"
     /\ JsOr(body.message, JsString(<<>>)).kind # "string"

PreviewRecord(url, domain, favicon, title, description, image, is404) ==
  [type |-> "website", url |-> url, domain |-> domain, favicon |-> favicon,
   title |-> title, description |-> description, image |-> image,
   is404 |-> is404]

\* The record of the catch block and of a failure that is no 404.
FallbackRecord(url, domain) ==
  PreviewRecord(url, domain, JsString(FaviconUrl(domain)), JsString(domain),
                JsString(url), JsString(ScreenshotUrl(url)), FALSE)

NotFoundRecord(url, domain) ==
  PreviewRecord(url, domain, JsString(FaviconUrl(domain)),
                JsString(<<"P", "a", "g", "e", " ", "N", "o", "t", " ", "F", "o", "u", "n", "d">>),
                JsString(<<"T", "h", "i", "s", " ", "p", "a", "g", "e", " ", "n", "o", " ", "l", "o", "n", "g", "e", "r", " ", "e", "x", "i", "s", "t", "s">>), JsNull, TRUE)

\* The record made of result.data || {}.
DataRecord(url, domain, data) ==
  PreviewRecord(url, domain,
                JsOr(data.logo, JsString(FaviconUrl(domain))),
                JsOr(data.title, JsString(domain)),
                JsOr(data.description, JsString(<<>>)),
                JsOr(data.image, JsString(ScreenshotUrl(url))),
                FALSE)

\* The record of the first branch, made without a call.
InstagramRecord(url) ==
  [type |-> "instagram", url |-> url, domain |-> S_instagram,
   favicon |-> JsString(<<"h", "t", "t", "p", "s", ":", "/", "/", "w", "w", "w", ".", "i", "n", "s", "t", "a", "g", "r", "a", "m", ".", "c", "o", "m", "/", "f", "a", "v", "i", "c", "o", "n", ".", "i", "c", "o">>),
   title |-> JsString(<<"I", "n", "s", "t", "a", "g", "r", "a", "m", " ", "C", "o", "n", "t", "e", "n", "t">>),
   description |-> JsString(<<"V", "i", "e", "w", " ", "o", "n", " ", "I", "n", "s", "t", "a", "g", "r", "a", "m">>), image |-> JsNull,
   is404 |-> FALSE]

\* fetchGenericPreview from the parsed body on.
GenericFromBody(url, domain, body) ==
  IF BodyThrows(body) THEN FallbackRecord(url, domain)
  ELSE IF body.status = "fail"
       THEN IF Is404Message(JsOr(body.message, JsString(<<>>)).value)
            THEN NotFoundRecord(url, domain)
            ELSE FallbackRecord(url, domain)
       ELSE DataRecord(url, domain, body.data)

\* A call of fetchGenericPreview(url, domain): suspended at await fetch
\* ("fetch"), at await response.json() ("json"), or returned.
NoRecord == [type |-> "none"]
NotSettled == [kind |-> "none"]

GenericCall(url, domain, pc, settled, result) ==
  [url |-> url, domain |-> domain, apiUrl |-> ApiUrl(url), pc |-> pc,
   settled |-> settled, result |-> result]

\* The urls fetchPreviewData hands to fetchGenericPreview.
GenericUrls == {url \in PreviewUrls \cup ContentUrls : DispatchOf(url) \in {"generic", "instagram"}}

(***************************************************************************)
(* The content script (content.js).  The page is one dialog container      *)
(* holding two text spans; the children of a span are text nodes and the   *)
(* anchors the linkifier made.  The anchors inserted by one pass are       *)
(* queued by the mutation observer as one entry, AnchorElement: the        *)
(* processor returns 0 for each of them whatever their number.             *)
(***************************************************************************)
Spans == {"span1", "span2"}
AnchorElement == "a"
Elements == {"dialog"} \cup Spans

\* Variant: the newer record replaces the older one.
MapReplace(base, over) == over

\* { ...a, ...b }
MapMerge(a, b) ==
  [k \in (DOMAIN a) \cup (DOMAIN b) |-> IF k \in DOMAIN b THEN b[k] ELSE a[k]]

\* let settings = { ... } (content.js 66-73)
ContentDefaults ==
  [enabled |-> TRUE, openInNewTab |-> TRUE, showPreview |-> TRUE,
   highlightLinks |-> TRUE, linkStyle |-> "default", trackHistory |-> FALSE]

\* What the page can put into a span.
S_seeExample == <<"s", "e", "e", " ", "e", "x", "a", "m", "p", "l", "e", ".", "c", "o", "m", "/", "a">>
S_queryLt == <<"e", "x", "a", "m", "p", "l", "e", ".", "c", "o", "m", "/", "?", "a", "&", "l", "t">>
S_colonHost == <<"w", "w", "w", ".", "a", ":", "b", ".", "c", "o">>
S_javascript == <<"j", "a", "v", "a", "s", "c", "r", "i", "p", "t", ":", "a", "l", "e", "r", "t", "(", "1", ")">>

PageTexts == {S_seeExample, S_queryLt, S_colonHost, S_javascript}

\* A caption with a bare domain and a url with two dots inside its host.
S_checkOut == <<"c", "h", "e", "c", "k", " ", "o", "u", "t", " ", "e", "x", "a", "m", "p", "l", "e", ".", "c", "o", "m", "/", "p", "a", "g", "e", " ", "a", "n", "d", " ", "a", "l", "s", "o", " ", "h", "t", "t", "p", ":", "/", "/", "b", "a", "d", ".", ".", "e", "n", "d", "i", "n", "g">>

ExampleTexts == {S_checkOut}

\* A text node of white space only, as markup has between elements.
S_blank == <<" ", " ">>

\* A child element of a span, with the text inside it.
ElementNode(tagName, text) == [TextNode(text) EXCEPT !.kind = tagName]

\* A span holding a script element, white space, a caption and a style
\* element, and a span holding the caption alone.
MixedContents ==
  {<<ElementNode("script", S_seeExample), TextNode(S_blank),
     TextNode(S_seeExample), ElementNode("style", S_seeExample)>>,
   <<TextNode(S_seeExample)>>}

LinkStyles == {"default", "subtle", "bold"}

\* The texts of the text nodes linkification leaves beside its anchors.
TextsBeside(nodes) == {nodes[i].text : i \in {j \in DOMAIN nodes : nodes[j].kind = "text"}}

RemainingTexts ==
  UNION {TextsBeside(ParseMarkup(linkifyText(text, ContentDefaults))) :
           text \in PageTexts \cup ExampleTexts}

\* The texts the pattern is run on: the text nodes and the empty span.
\* el.textContent
RECURSIVE TextContent(_)
TextContent(nodes) ==
  IF Len(nodes) = 0 THEN <<>>
  ELSE Head(nodes).text \o TextContent(Tail(nodes))

AnchorTexts ==
  UNION {{n[i].text : i \in {j \in DOMAIN n : n[j].kind = "a"}} :
           n \in {ParseMarkup(linkifyText(text, ContentDefaults)) :
                    text \in PageTexts \cup ExampleTexts}}

ModelTexts ==
  PageTexts \cup ExampleTexts \cup RemainingTexts \cup AnchorTexts
    \cup {TextContent(nodes) : nodes \in MixedContents} \cup {S_blank, <<>>}

\* URL_REGEX tried at each position, and the nodes of temp.innerHTML =
\* linkifyText(text), for the texts of the model, computed once.
MatchEnds ==
  [text \in ModelTexts |-> [p \in 1..Len(text) |-> MatchEndAt(text, p)]]

LinkifyResults ==
  [text \in ModelTexts |->
     [newTab \in BOOLEAN |->
        [style \in LinkStyles |->
           ParseMarkup(linkifyText(text, [openInNewTab |-> newTab,
                                          linkStyle |-> style]))]]]

\* URL_REGEX.exec(text) with lastIndex = from, over MatchEnds.
RECURSIVE ExecOfScan(_, _)
ExecOfScan(text, p) ==
  IF p > Len(text) THEN NoMatch
  ELSE IF MatchEnds[text][p] > 0 THEN [start |-> p, end |-> MatchEnds[text][p]]
  ELSE ExecOfScan(text, p + 1)

ExecOf(text, from) == ExecOfScan(text, from + 1)

LinkifiedNodes(text, st) == LinkifyResults[text][st.openInNewTab][st.linkStyle]

\* The content script's state and the preview manager it calls, as one
\* record.  links counts the anchors made by the pass under way, thrown
\* tells that the pass ended in an exception, out collects the children of
\* the span being rebuilt, skipped the elements add() returned early on.
Content ==
  [settings |-> settings, spanNodes |-> spanNodes, processed |-> processed,
   queue |-> queue, isProcessing |-> isProcessing,
   debounceTimer |-> debounceTimer, framePending |-> framePending,
   linkCount |-> linkCount, regexLastIndex |-> regexLastIndex,
   mgr |-> Manager, links |-> 0, thrown |-> FALSE, out |-> <<>>,
   skipped |-> {}]

CommitContent(c) ==
  /\ settings' = c.settings
  /\ spanNodes' = c.spanNodes
  /\ processed' = c.processed
  /\ queue' = c.queue
  /\ isProcessing' = c.isProcessing
  /\ debounceTimer' = c.debounceTimer
  /\ framePending' = c.framePending
  /\ linkCount' = c.linkCount
  /\ regexLastIndex' = c.regexLastIndex
  /\ lastSkipped' = c.skipped
  /\ Commit(c.mgr)

\* markDeadLink(url) on the page (preview.js 103-107): the anchors with
\* data-instaclick-url = url get the class instaclick-dead-link.
MarkDeadNode(node, url) ==
  IF node.kind = "a" /\ node.dataUrl = url
  THEN [node EXCEPT !.dead = TRUE] ELSE node

markDeadLink(nodes, url) ==
  [s \in DOMAIN nodes |->
     [i \in DOMAIN nodes[s] |-> MarkDeadNode(nodes[s][i], url)]]

\* What a step of the preview manager does to the page: it marks the
\* anchors of a url it found dead, and nothing else.
PageMarked(url, found) ==
  /\ spanNodes' = IF found THEN markDeadLink(spanNodes, url) ELSE spanNodes
  /\ UNCHANGED <<settings, processed, queue, isProcessing, debounceTimer,
                 framePending, linkCount, regexLastIndex, lastSkipped>>

\* Variant: an element is never taken for processed.
IsProcessedNever(c, el) == FALSE

\* element.hasAttribute('data-instaclick-processed')
IsProcessed(c, el) == el \in c.processed

\* debounce (content.js 167-173): `timeout` is the id of the pending timer,
\* NoTimer when none is pending.  processDebounced() clears it and sets a
\* new timer, whose id differs from the one cleared.
NoTimer == 0
TimerIds == {1, 2}

\* Variant: the call sets no timer.
DebounceDropped(timeout) == timeout

processDebounced(timeout) == IF timeout = 1 THEN 2 ELSE 1

\* LinkProcessor.add; processDebounced() restarts the 100 ms timer.
Add(c, el) ==
  IF IsProcessed(c, el) THEN [c EXCEPT !.skipped = @ \cup {el}]
  ELSE [c EXCEPT !.queue = SetAdd(@, el),
                 !.debounceTimer = processDebounced(@)]

RECURSIVE AddAll(_, _)
AddAll(c, els) ==
  IF Len(els) = 0 THEN c ELSE AddAll(Add(c, Head(els)), Tail(els))

\* container.querySelectorAll('span, div, p, h1, ..., li'), in document order
TextElements(el) == IF el = "dialog" THEN <<"span1", "span2">> ELSE <<>>

processContainer(c, el) ==
  IF ~c.settings.enabled THEN c ELSE AddAll(c, <<el>> \o TextElements(el))

\* The elements CONTENT_SELECTORS and then MODAL_SELECTORS find on the
\* page: div[role="dialog"], span[dir="auto"] twice, div[role="dialog"].
ScanOrder == <<"dialog", "span1", "span2", "dialog">>

RECURSIVE ProcessContainers(_, _)
ProcessContainers(c, els) ==
  IF Len(els) = 0 THEN c
  ELSE ProcessContainers(processContainer(c, Head(els)), Tail(els))

findAndProcessLinks(c) ==
  IF ~c.settings.enabled THEN c ELSE ProcessContainers(c, ScanOrder)

\* Variant: processQueue without the isProcessing test.
ProcessQueueUnguarded(c) ==
  IF Len(c.queue) = 0 THEN c
  ELSE [c EXCEPT !.isProcessing = TRUE, !.framePending = @ + 1]

\* LinkProcessor.processQueue up to requestAnimationFrame.
processQueue(c) ==
  IF c.isProcessing \/ Len(c.queue) = 0 THEN c
  ELSE [c EXCEPT !.isProcessing = TRUE, !.framePending = @ + 1]

\* Variant: acceptNode without the test of the parent being a link.
AcceptsNodeInLink(node) ==
  node.kind \in {"text", "a"} /\ Len(Trim(node.text)) > 0

\* The tree walker's acceptNode, for the children of a span.
AcceptsNode(node) == node.kind = "text" /\ Len(Trim(node.text)) > 0

\* el.querySelector('.instaclick-link'), for the children of a span
HasLinkInside(nodes) == \E i \in DOMAIN nodes : nodes[i].kind = "a"

CountLinks(nodes) == Cardinality({i \in DOMAIN nodes : nodes[i].kind = "a"})

\* newLinks.forEach(link => manager.preloadLink(url))
RECURSIVE PreloadNewLinks(_, _, _, _)
PreloadNewLinks(c, nodes, t, valid) ==
  IF Len(nodes) = 0 THEN c
  ELSE IF /\ Head(nodes).kind = "a"
          /\ Len(Head(nodes).dataUrl) > 0
          /\ c.settings.showPreview
  THEN PreloadNewLinks(
         [c EXCEPT !.mgr = PreloadLinkOp(@, Head(nodes).dataUrl, t, valid)],
         Tail(nodes), t, valid)
  ELSE PreloadNewLinks(c, Tail(nodes), t, valid)

\* URL_REGEX.lastIndex when linkifyText throws at its first anchor: the
\* end of the first match it does not skip.
RECURSIVE ThrowMatch(_, _)
ThrowIndex(text, from) == ThrowMatch(text, RegexExec(text, from))

ThrowMatch(text, match) ==
  IF match = NoMatch THEN 0
  ELSE IF SkipsMatch(SubSeq(text, match.start, match.end))
  THEN ThrowIndex(text, match.end)
  ELSE match.end

\* node.parentNode.replaceChild(fragment, node), the preloads, the count.
ReplaceTextNode(c, nodes, t, valid) ==
  PreloadNewLinks([c EXCEPT !.out = @ \o nodes,
                            !.links = @ + CountLinks(nodes),
                            !.regexLastIndex = 0],
                  nodes, t, valid)

\* processTextNode after the pattern test, nodes being the child nodes
\* of temp.  chrome.runtime.getURL, called for every anchor linkifyText
\* builds, throws once the extension context is invalidated.
LinkifiedNode(c, node, nodes, t, valid) ==
  IF ~HasLinkInside(nodes)
  THEN [c EXCEPT !.regexLastIndex = 0, !.out = Append(@, node)]
  ELSE IF ~valid
  THEN [c EXCEPT !.regexLastIndex = ThrowIndex(node.text, 0),
                 !.thrown = TRUE, !.out = Append(@, node)]
  ELSE ReplaceTextNode(c, nodes, t, valid)

\* URL_REGEX.test(text) starts at the lastIndex the pattern was left with.
processTextNode(c, node, t, valid) ==
  IF ExecOf(node.text, c.regexLastIndex) = NoMatch
  THEN [c EXCEPT !.regexLastIndex = 0, !.out = Append(@, node)]
  ELSE LinkifiedNode(c, node, LinkifiedNodes(node.text, c.settings), t, valid)

RECURSIVE ProcessNodes(_, _, _, _)
ProcessNodes(c, nodes, t, valid) ==
  IF Len(nodes) = 0 THEN c
  ELSE IF c.thrown \/ ~AcceptsNode(Head(nodes))
  THEN ProcessNodes([c EXCEPT !.out = Append(@, Head(nodes))],
                    Tail(nodes), t, valid)
  ELSE ProcessNodes(processTextNode(c, Head(nodes), t, valid),
                    Tail(nodes), t, valid)

SpanDone(c, s) == [c EXCEPT !.spanNodes[s] = c.out, !.out = <<>>]

\* The spans whose text nodes the tree walker of an element visits.
WalkedSpans(el) ==
  IF el = "dialog" THEN <<"span1", "span2">>
  ELSE IF el \in Spans THEN <<el>>
  ELSE <<>>

RECURSIVE ProcessSpans(_, _, _, _)
ProcessSpans(c, spans, t, valid) ==
  IF Len(spans) = 0 THEN c
  ELSE ProcessSpans(
         SpanDone(ProcessNodes(c, c.spanNodes[Head(spans)], t, valid),
                  Head(spans)),
         Tail(spans), t, valid)

\* Variant: processElement without the test of settings.enabled.
ProcessElementAlways(c, el, t, valid) ==
  IF IsProcessed(c, el) THEN c
  ELSE IF el = AnchorElement THEN c
  ELSE ProcessSpans([c EXCEPT !.processed = @ \cup {el}],
                    WalkedSpans(el), t, valid)

processElement(c, el, t, valid) ==
  IF ~c.settings.enabled THEN c
  ELSE IF IsProcessed(c, el) THEN c
  ELSE IF el = AnchorElement THEN c
  ELSE ProcessSpans([c EXCEPT !.processed = @ \cup {el}],
                    WalkedSpans(el), t, valid)

\* for (const element of elements) newLinks += processElement(element)
RECURSIVE ProcessElements(_, _, _, _)
ProcessElements(c, els, t, valid) ==
  IF Len(els) = 0 \/ c.thrown THEN c
  ELSE ProcessElements(processElement(c, Head(els), t, valid),
                       Tail(els), t, valid)

\* The end of the animation-frame callback; an exception skips it.
FrameEnd(c) ==
  IF c.thrown THEN c
  ELSE [c EXCEPT !.linkCount = @ + c.links,
                 !.isProcessing = FALSE,
                 !.debounceTimer = IF Len(c.queue) > 0
                                   THEN processDebounced(@) ELSE @]

\* The mutation observer's callback for the anchors the pass inserted.
ObserveInsertions(c) ==
  IF c.links > 0 THEN processContainer(c, AnchorElement) ELSE c

\* The callback processQueue hands to requestAnimationFrame, and the
\* mutation observer's callback that follows it.
AnimationFrameOp(c, t, valid) ==
  ObserveInsertions(FrameEnd(
    ProcessElements([c EXCEPT !.queue = <<>>, !.framePending = @ - 1],
                    c.queue, t, valid)))

\* The sweep's test of one span; lastIndex stays where the test left it.
SweepMatched(c, s, match) ==
  IF match = NoMatch THEN [c EXCEPT !.regexLastIndex = 0]
  ELSE Add([c EXCEPT !.regexLastIndex = match.end,
                     !.processed = @ \ {s}], s)

SweepSpan(c, s) ==
  IF HasLinkInside(c.spanNodes[s]) THEN c
  ELSE SweepMatched(c, s, ExecOf(TextContent(c.spanNodes[s]), 0))

RECURSIVE SweepSpans(_, _)
SweepSpans(c, spans) ==
  IF Len(spans) = 0 THEN c
  ELSE SweepSpans(SweepSpan(c, Head(spans)), Tail(spans))

\* The sweep's two tests of a span that carries the mark: no anchor inside
\* and a text the pattern matches.
HasStaleMark(c, s) ==
  /\ s \in c.processed
  /\ ~HasLinkInside(c.spanNodes[s])
  /\ ExecOf(TextContent(c.spanNodes[s]), 0) # NoMatch

\* The body of the 3000 ms interval, the page being visible.
SweepOp(c) ==
  IF ~c.settings.enabled THEN c ELSE SweepSpans(c, <<"span1", "span2">>)

\* link.className = `instaclick-link instaclick-style-${...}`: the class
\* list is replaced, whatever it held.
RestyleNode(node, st) ==
  IF node.kind = "a"
  THEN [node EXCEPT !.style = st.linkStyle, !.dead = FALSE]
  ELSE node

updateLinkStyles(c) ==
  [c EXCEPT !.spanNodes =
     [s \in Spans |->
        [i \in DOMAIN c.spanNodes[s] |->
           RestyleNode(c.spanNodes[s][i], c.settings)]]]

\* The SETTINGS_UPDATED listener.
SettingsUpdatedOp(c, message) ==
  findAndProcessLinks(
    updateLinkStyles([c EXCEPT !.settings = MapMerge(@, message)]))

(***************************************************************************)
(* The background service worker (src/README.md 218-491).  A handler is    *)
(* suspended at each await on chrome.storage; the read or write it awaits  *)
(* takes effect when the handler resumes.                                  *)
(***************************************************************************)
DEFAULT_SETTINGS ==
  [enabled |-> TRUE, openInNewTab |-> TRUE, showPreview |-> TRUE,
   highlightLinks |-> TRUE, linkStyle |-> "default", trackHistory |-> TRUE,
   expandShortUrls |-> TRUE, maxHistoryItems |-> 100]

\* const { key = default } = await chrome.storage.<area>.get('key')
StorageGet(store, key, default) ==
  IF key \in DOMAIN store THEN store[key] ELSE default

StoredSettings(store) == StorageGet(store, "settings", DEFAULT_SETTINGS)
StoredHistory(store) == StorageGet(store, "clickHistory", <<>>)

NoStats == [totalClicks |-> 0, domains |-> EmptyMap]

StoredStats(store) == StorageGet(store, "stats", NoStats)

\* The number of entries trackLinkClick keeps: clickHistory.slice(0, 100)
HistoryLimit == 100

\* Variant: nothing is cut off.
SliceAll(s, n) == s

\* array.slice(0, n)
SliceTo(s, n) == Take(s, IF Len(s) < n THEN Len(s) ELSE n)

\* hostname.replace(/^www\./, '')
StripWww(hostname) ==
  IF StartsWith(hostname, S_www) THEN Drop(hostname, Len(S_www)) ELSE hostname

NoEntry == [url |-> NoUrl, hostname |-> <<>>, timestamp |-> 0, id |-> <<0, 0>>]

\* The history entry of a click; the id is `${Date.now()}-${random}`.
HistoryEntry(url, t, random) ==
  [url |-> url, hostname |-> StripWww(Hostname(url)), timestamp |-> t,
   id |-> <<t, random>>]

\* Variant: the entry is put at the end of the history.
PushEntry(history, entry) == Append(history, entry)

\* clickHistory.unshift(entry)
UnshiftEntry(history, entry) == <<entry>> \o history

\* stats.totalClicks++; stats.domains[hostname] = (... || 0) + 1
CountClick(stats, hostname) ==
  [totalClicks |-> stats.totalClicks + 1,
   domains |-> MapPut(stats.domains, hostname,
                      StorageGet(stats.domains, hostname, 0) + 1)]

\* A handler suspended at an await: the message it serves, where it
\* stands, and its local variables.
Handler(type, pc, url, message) ==
  [type |-> type, pc |-> pc, url |-> url, message |-> message,
   clickHistory |-> <<>>, trimmedHistory |-> <<>>, entry |-> NoEntry,
   stats |-> NoStats, settings |-> EmptyMap, updatedSettings |-> EmptyMap,
   tabIndex |-> 0, fetched |-> NotSettled]

NoResponse ==
  [type |-> "none", url |-> NoUrl, success |-> FALSE, tracked |-> FALSE,
   settings |-> EmptyMap, expandedUrl |-> JsUndefined]

Response(type, url, success, tracked) ==
  [type |-> type, url |-> url, success |-> success, tracked |-> tracked,
   settings |-> EmptyMap, expandedUrl |-> JsUndefined]

\* { success: true, settings }
SettingsResponse(type, record) ==
  [type |-> type, url |-> NoUrl, success |-> TRUE, tracked |-> FALSE,
   settings |-> record, expandedUrl |-> JsUndefined]

\* { success, expandedUrl } of expandShortUrl
ExpandResponse(url, success, expandedUrl) ==
  [type |-> "EXPAND_URL", url |-> url, success |-> success,
   tracked |-> FALSE, settings |-> EmptyMap, expandedUrl |-> expandedUrl]

\* What response.json() of unshorten.me resolves with: null, or an object
\* with or without resolved_url.
Unshortened(resolved_url) == [kind |-> "object", resolved_url |-> resolved_url]

\* Variant: any resolved url counts, the original too.
ResolvesAny(data, url) == Truthy(data.resolved_url)

\* data.resolved_url && data.resolved_url !== url
Resolves(data, url) ==
  Truthy(data.resolved_url) /\ data.resolved_url # JsString(url)

\* The fallback after the inner try: { success: false, error, expandedUrl: url }
CouldNotExpand(url) == ExpandResponse(url, FALSE, JsString(url))

\* expandShortUrl(url) from the parsed body on; reading a property of null
\* throws into the inner catch.
ExpandFromBody(url, data) ==
  IF data.kind \in {"unparsable", "null"} THEN CouldNotExpand(url)
  ELSE IF Resolves(data, url)
       THEN ExpandResponse(url, TRUE, data.resolved_url)
       ELSE CouldNotExpand(url)

\* chrome.tabs.query({ url: [instagram patterns] }): the open host-page
\* tabs, in the order of the loop.  A tab without the content script
\* rejects sendMessage; the loop catches that and goes on.
Tabs == <<"tab1", "tab2">>
TabsWithoutContentScript == {"tab1"}

\* The settings an earlier version of the extension stored.
LegacySettings == [enabled |-> TRUE, trackHistory |-> FALSE]

\* trackLinkClick between the read of the history and its write;
\* clickHistory is kept as it was read.
TrackEntryBuilt(h, history, entry) ==
  [h EXCEPT !.pc = "saveHistory",
            !.entry = entry,
            !.clickHistory = history,
            !.trimmedHistory =
              SliceTo(UnshiftEntry(history, entry), HistoryLimit)]


\* What chrome.storage.local holds when the service worker starts after
\* HistoryLimit - 1 recorded clicks.  Instants are counted from the start
\* of the service worker; the clicks of earlier runs lie before it.
KeptHistory == [k \in 1..(HistoryLimit - 1) |-> HistoryEntry(UrlA, 0 - k, "r1")]

KeptStats ==
  [totalClicks |-> HistoryLimit - 1,
   domains |-> MapPut(EmptyMap, StripWww(Hostname(UrlA)), HistoryLimit - 1)]

KeptStore == MapPut(MapPut(EmptyMap, "clickHistory", KeptHistory), "stats", KeptStats)

(***************************************************************************)
(* Hovering (content.js 458-498, preview.js 197-210, 229-236).  The        *)
(* pointer is over an anchor, over the card, over the QR popup, over some  *)
(* other element of the page, or outside the window.  A move of the        *)
(* pointer from one element to another delivers mouseout and mouseleave on *)
(* the element left, then mouseover and mouseenter on the element entered, *)
(* in one task of the page.                                                *)
(***************************************************************************)
Over(kind, url) == [kind |-> kind, url |-> url]

\* The anchors of the page.
HoverUrls == {UrlA, UrlY}

PointerPlaces ==
  {Over("outside", NoUrl), Over("page", NoUrl), Over("card", NoUrl),
   Over("qr", NoUrl)} \cup {Over("link", url) : url \in HoverUrls}

\* hoverDelayTimeout: no pending timer, the 100 ms timer of show(link, url),
\* or the 150 ms timer of hide().
NoTimeout == [kind |-> "none", url |-> NoUrl]
ShowTimeout(url) == [kind |-> "show", url |-> url]
HideTimeout == [kind |-> "hide", url |-> NoUrl]

\* clearTimeout(hoverDelayTimeout), at the top of handleLinkHover whatever
\* the target of the event.
ClearTimeout(target, timeout) == NoTimeout

\* handleLinkHover(event): the timer after the event.  The events reach it
\* from document, so target is any element; relatedTarget is the element
\* on the other side of the move ("outside": null).
handleLinkHover(st, timeout, type, target, relatedTarget) ==
  IF ~st.showPreview THEN timeout
  ELSE LET cleared == ClearTimeout(target, timeout)
       IN IF type = "mouseover"
          THEN IF target.kind = "link" /\ target.url # NoUrl
               THEN ShowTimeout(target.url)
               ELSE cleared
          ELSE IF target.kind # "link" THEN cleared
               ELSE IF relatedTarget.kind \in {"card", "qr"} THEN cleared
               ELSE HideTimeout

\* Variant: leaving the card hides it wherever the pointer goes.
CardMouseLeaveAlways(m, relatedTarget) == HideOp(m)

\* mouseleave of the card: hide() unless the pointer goes to the QR popup.
CardMouseLeave(m, relatedTarget) ==
  IF relatedTarget.kind = "qr" THEN m ELSE HideOp(m)

\* mouseleave of the QR popup: hide() unless the pointer goes to the card.
QRMouseLeave(m, relatedTarget) ==
  IF relatedTarget.kind = "card" THEN m ELSE HideOp(m)

\* The manager after the mouseleave listeners of the element left.
MouseLeave(m, from, to) ==
  CASE from.kind = "card" -> CardMouseLeave(m, to)
    [] from.kind = "qr" -> QRMouseLeave(m, to)
    [] OTHER -> m

\* The timer after mouseout on the element left and mouseover on the
\* element entered.
MovedTimeout(st, timeout, from, to) ==
  LET left == IF from.kind = "outside" THEN timeout
              ELSE handleLinkHover(st, timeout, "mouseout", from, to)
  IN IF to.kind = "outside" THEN left
     ELSE handleLinkHover(st, left, "mouseover", to, from)

\* Where the pointer can go: the card and the popup only while displayed.
CanEnter(m, to) ==
  CASE to.kind = "card" -> m.card.visible
    [] to.kind = "qr" -> m.qrPopup.visible
    [] OTHER -> TRUE

(***************************************************************************)
(* The expand button and the clicks on the card (preview.js 165-191,       *)
(* 317-349).                                                               *)
(***************************************************************************)
S_expanding == <<"E", "x", "p", "a", "n", "d", "i", "n", "g", ".", ".", ".">>
S_expanded == <<"E", "x", "p", "a", "n", "d", "e", "d">>
S_couldNotExpand == <<"C", "o", "u", "l", "d", " ", "n", "o", "t", " ", "e", "x", "p", "a", "n", "d", " ", "U", "R", "L">>
S_notShortened == <<"T", "h", "i", "s", " ", "i", "s", " ", "n", "o", "t", " ", "a", " ", "s", "h", "o", "r", "t", "e", "n", "e", "d", " ", "U", "R", "L">>

\* Where the resolution service says a short url leads.
Destination(url) ==
  <<"h", "t", "t", "p", "s", ":", "/", "/", "d", "e", "s", "t", ".", "e", "x", "a", "m", "p", "l", "e", "/", "?", "u", "=">> \o encodeURIComponent(url)

\* What await chrome.runtime.sendMessage({ type: 'EXPAND_URL', url }) ends
\* with: the answer of expandShortUrl to a body of the service, or a
\* rejection.
ExpandOutcomes(url) ==
  {[kind |-> "response", result |-> ExpandFromBody(url, body)] :
     body \in {Unshortened(JsString(Destination(url))), [kind |-> "null"]}}
  \cup {[kind |-> "reject", result |-> NoResponse]}

\* result.expandedUrl.length > 55 ? result.expandedUrl.slice(0, 55) + '...'
ShownUrl(s) == IF Len(s) > 55 THEN Take(s, 55) \o <<".", ".", ".">> ELSE s

\* result.error || 'This is not a shortened URL'; expandShortUrl sets error
\* in every answer that has success: false.
ErrorOr(result, text) == IF result.success THEN text ELSE S_couldNotExpand

\* expandCurrentUrl up to its await.
ExpandCurrentUrlOp(m, valid) ==
  IF m.currentUrl = NoUrl \/ ~valid THEN m
  ELSE [m EXCEPT !.expandBtn = [textContent |-> S_expanding, disabled |-> TRUE],
                 !.expandCalls = Append(@, m.currentUrl)]

\* The catch block of expandCurrentUrl.
ExpandFailed(m) ==
  [m EXCEPT !.expandedText.textContent = S_couldNotExpand,
            !.expandedDiv.display = "block",
            !.expandBtn.textContent = S_expandUrl]

\* The try block of expandCurrentUrl after its await.
ExpandResult(m, result) ==
  IF result.success /\ result.expandedUrl # JsString(m.currentUrl)
  THEN IF result.expandedUrl.kind # "string" THEN ExpandFailed(m)
       ELSE [m EXCEPT !.expandedText =
                        [textContent |-> ShownUrl(result.expandedUrl.value),
                         title |-> result.expandedUrl.value],
                      !.expandedDiv.display = "block",
                      !.expandBtn.textContent = S_expanded]
  ELSE [m EXCEPT !.expandedText.textContent = ErrorOr(result, S_notShortened),
                 !.expandedDiv.display = "block",
                 !.expandBtn.textContent = S_expandUrl]

\* expandCurrentUrl from its await on.
ExpandSettledOp(m, outcome) ==
  [(IF outcome.kind = "reject" THEN ExpandFailed(m)
    ELSE ExpandResult(m, outcome.result))
   EXCEPT !.expandBtn.disabled = FALSE]

\* The click listener of the link area: trackClick() sends TRACK_CLICK
\* from the page, then setTimeout(() => this.hide(), 100).
LinkAreaClick(m) == [m EXCEPT !.hideTimers = @ + 1]

(***************************************************************************)
(* Actions of the preview manager                                          *)
(***************************************************************************)
\* content.js calls manager.preloadLink(url) for a new or visible anchor.
PreloadLink(url) ==
  /\ Commit(PreloadLinkOp(Manager, url, now, runtimeValid))
  /\ UNCHANGED <<evars, lastCall, cvars, bvars, hvars, gvars, nvars, uvars>>

\* The 300 ms restart timer set at the end of a drain fires.
RestartTimerFire ==
  /\ restartTimers > 0
  /\ Commit(ProcessPreloadQueue([Manager EXCEPT !.restartTimers = @ - 1],
                                now, runtimeValid))
  /\ UNCHANGED <<evars, lastCall, cvars, bvars, hvars, gvars, nvars, uvars>>

\* The external metadata call of a drain settles.
DrainFetchDoneWith(outcomes) ==
  \E i \in DOMAIN drains : \E outcome \in outcomes :
    /\ drains[i].pc = "fetch"
    /\ Commit(DrainFetchDoneOp(Manager, i, outcome, now))
    /\ PageMarked(drains[i].cur, GenericPreview(drains[i].cur, outcome).is404)
    /\ UNCHANGED <<evars, lastCall, bvars, hvars, gvars, nvars, uvars>>

DrainFetchDone == DrainFetchDoneWith(PreviewOutcomes)

\* The 150 ms pacing timer of a drain fires.
DrainPaceDone ==
  \E i \in DOMAIN drains :
    LET m == DrainPaceDoneOp(Manager, i, now, runtimeValid)
    IN /\ drains[i].pc = "pace"
       /\ m.restartTimers <= MaxTimers
       /\ Commit(m)
       /\ UNCHANGED <<evars, lastCall, cvars, bvars, hvars, gvars, nvars, uvars>>

\* The hover timer of content.js calls manager.show(link, url).
Show(url) ==
  LET m == ShowOp(Manager, url, now)
  IN /\ Len(m.showFetches) <= MaxInFlight
     /\ Commit(m)
     /\ UNCHANGED <<evars, lastCall, cvars, bvars, hvars, gvars, nvars, uvars>>

\* The external metadata call of a show() settles.
ShowFetchDone ==
  \E i \in DOMAIN showFetches : \E outcome \in PreviewOutcomes :
    LET url == showFetches[i]
        m == [Manager EXCEPT !.showFetches = RemoveAt(showFetches, i),
                             !.abortedFetches = RemoveAt(abortedFetches, i)]
    IN /\ Commit(ShowResultOp(m, url, GenericPreview(url, outcome), now))
       /\ PageMarked(url, /\ ~ShowResultStale(m, url)
                          /\ GenericPreview(url, outcome).is404)
       /\ UNCHANGED <<evars, lastCall, bvars, hvars, gvars, nvars, uvars>>

Hide ==
  /\ Commit(HideOp(Manager))
  /\ UNCHANGED <<evars, lastCall, cvars, bvars, hvars, gvars, nvars, uvars>>

\* Time passes.  The instants at which the model looks at the clock: they
\* put an entry written at 0 at ages cacheDuration and cacheDuration + 1.
ClockInstants == {0, cacheDuration, cacheDuration + 1}

Tick ==
  /\ \E t \in ClockInstants : t > now /\ now' = t
  /\ UNCHANGED <<pvars, runtimeValid, lastCall, cvars, bvars, hvars, gvars, nvars, uvars>>

\* The extension is reloaded: chrome.runtime.id is gone for good.
InvalidateRuntime ==
  /\ runtimeValid
  /\ runtimeValid' = FALSE
  /\ UNCHANGED <<pvars, now, lastCall, cvars, bvars, hvars, gvars, nvars, uvars>>

NoCall == [url |-> NoUrl, stale |-> FALSE, enqueued |-> FALSE]

InitPreview ==
  /\ cache = EmptyMap
  /\ preloadQueue = <<>>
  /\ isPreloading = FALSE
  /\ drains = <<>>
  /\ restartTimers = 0
  /\ currentUrl = NoUrl
  /\ card = NoCard
  /\ showFetches = <<>>
  /\ abortedFetches = <<>>
  /\ currentLink = NoLink
  /\ qrPopup = NoQRPopup
  /\ deadLinks = {}
  /\ apiRequests = {}
  /\ expandBtn = ExpandBtn
  /\ expandedDiv = [display |-> "none"]
  /\ expandedText = [textContent |-> <<>>, title |-> <<>>]
  /\ expandCalls = <<>>
  /\ hideTimers = 0
  /\ now = 0
  /\ runtimeValid = TRUE
  /\ lastCall = NoCall

(***************************************************************************)
(* The popup (popup.js 4-66).                                              *)
(***************************************************************************)
settingIds == <<"enabled", "openInNewTab", "showPreview", "trackHistory">>

\* applySettingsToUI: checked = this.settings[id] !== false
applySettingsToUI(st) ==
  [id \in Range(settingIds) |-> ~(id \in DOMAIN st /\ st[id] = FALSE)]

\* The popup as its constructor leaves it, before loadSettings.
InitPopup ==
  /\ popupSettings = EmptyMap
  /\ checked = [id \in Range(settingIds) |-> FALSE]
  /\ popupPending = 0

\* init(): loadSettings gets the answer of getSettings to GET_SETTINGS,
\* applies it to the switches, and setupSettings adds the listeners.
PopupOpens ==
  /\ popupSettings = EmptyMap
  /\ popupSettings' = MapMerge(DEFAULT_SETTINGS, StoredSettings(syncStore))
  /\ checked' = applySettingsToUI(popupSettings')
  /\ UNCHANGED <<popupPending, pvars, evars, lastCall, cvars, bvars, hvars,
                 gvars, nvars>>

\* updateSetting: { ...this.settings, [key]: value }
newSettings(st, key, value) == MapMerge(st, [k \in {key} |-> value])

\* The user flips a switch that still shows what the popup loaded:
\* updateSetting(id, e.target.checked) up to its await.
PopupToggle(id) ==
  /\ popupSettings # EmptyMap
  /\ checked[id] = applySettingsToUI(DEFAULT_SETTINGS)[id]
  /\ popupPending < MaxPopupPending
  /\ Len(requests) < MaxRequests
  /\ checked' = [checked EXCEPT ![id] = ~checked[id]]
  /\ popupPending' = popupPending + 1
  /\ requests' = Append(requests,
                        Handler("UPDATE_SETTINGS", "settings", NoUrl,
                                newSettings(popupSettings, id, ~checked[id])))
  /\ UNCHANGED <<popupSettings, syncStore, localStore, tabNotified,
                 lastResponse, clicks>>
  /\ UNCHANGED <<pvars, evars, lastCall, cvars, hvars, gvars, nvars>>

\* updateSetting after its await: the answer to UPDATE_SETTINGS reaches
\* the popup, if one waits for it.
PopupAnswered(response) ==
  IF popupPending = 0 THEN UNCHANGED uvars
  ELSE /\ popupSettings' = IF response.success THEN response.settings
                           ELSE popupSettings
       /\ popupPending' = popupPending - 1
       /\ UNCHANGED checked

(***************************************************************************)
(* Actions of the content script                                           *)
(***************************************************************************)
\* The page reuses a span for other content: its children become one text
\* node, its attributes stay.
PageSetsText(s, text) ==
  /\ linkCount < MaxLinkCount
  /\ CommitContent([Content EXCEPT !.spanNodes[s] = <<TextNode(text)>>])
  /\ UNCHANGED <<evars, lastCall, bvars, hvars, gvars, nvars, uvars>>

\* The page replaces the children of a span.
PageSetsNodes(s, nodes) ==
  /\ linkCount < MaxLinkCount
  /\ CommitContent([Content EXCEPT !.spanNodes[s] = nodes])
  /\ UNCHANGED <<evars, lastCall, bvars, hvars, gvars, nvars, uvars>>

\* The initial scan, the scroll handler and the url change handler.
FindAndProcessLinks ==
  /\ CommitContent(findAndProcessLinks(Content))
  /\ UNCHANGED <<evars, lastCall, bvars, hvars, gvars, nvars, uvars>>

\* The mutation observer sees the style attribute of the dialog change.
DialogRestyled ==
  /\ CommitContent(processContainer(Content, "dialog"))
  /\ UNCHANGED <<evars, lastCall, bvars, hvars, gvars, nvars, uvars>>

\* The 100 ms timer of processDebounced fires.
DebounceFire ==
  /\ debounceTimer # NoTimer
  /\ CommitContent(processQueue([Content EXCEPT !.debounceTimer = NoTimer]))
  /\ UNCHANGED <<evars, lastCall, bvars, hvars, gvars, nvars, uvars>>

\* The animation frame requested by processQueue.
AnimationFrame ==
  /\ framePending > 0
  /\ CommitContent(AnimationFrameOp(Content, now, runtimeValid))
  /\ UNCHANGED <<evars, lastCall, bvars, hvars, gvars, nvars, uvars>>

\* The 3000 ms interval fires.
Sweep ==
  /\ CommitContent(SweepOp(Content))
  /\ UNCHANGED <<evars, lastCall, bvars, hvars, gvars, nvars, uvars>>

\* SETTINGS_UPDATED messages the content script is sent.
ContentMessages ==
  {[enabled |-> FALSE], [enabled |-> TRUE], [openInNewTab |-> FALSE]}

SettingsUpdated(message) ==
  /\ CommitContent(SettingsUpdatedOp(Content, message))
  /\ UNCHANGED <<evars, lastCall, bvars, hvars, gvars, nvars, uvars>>

InitContent ==
  /\ settings = ContentDefaults
  /\ spanNodes = [s \in Spans |-> <<>>]
  /\ processed = {}
  /\ queue = <<>>
  /\ isProcessing = FALSE
  /\ debounceTimer = NoTimer
  /\ framePending = 0
  /\ linkCount = 0
  /\ regexLastIndex = 0
  /\ lastSkipped = {}

(***************************************************************************)
(* Actions of the background service worker                                *)
(***************************************************************************)
TrackRequests == {i \in DOMAIN requests : requests[i].type = "TRACK_CLICK"}

\* The response is sent and the handler is gone.
Respond(i, response) ==
  /\ requests' = RemoveAt(requests, i)
  /\ lastResponse' = response

\* chrome.runtime.onInstalled with reason 'install'.
OnInstalled ==
  /\ "settings" \notin DOMAIN syncStore
  /\ syncStore' = MapPut(syncStore, "settings", DEFAULT_SETTINGS)
  /\ UNCHANGED <<localStore, requests, tabNotified, lastResponse>>
  /\ UNCHANGED <<pvars, evars, lastCall, cvars, clicks, hvars, gvars, nvars, uvars>>

\* handleLinkClick sends TRACK_CLICK with the url of the anchor.
ReceiveTrackClick(url) ==
  /\ Len(requests) < MaxRequests
  /\ clicks < MaxEntries
  /\ clicks' = clicks + 1
  /\ requests' = Append(requests, Handler("TRACK_CLICK", "settings", url, EmptyMap))
  /\ UNCHANGED <<syncStore, localStore, tabNotified, lastResponse>>
  /\ UNCHANGED <<pvars, evars, lastCall, cvars, hvars, gvars, nvars, uvars>>

\* trackLinkClick resumes with the settings.
TrackSettingsRead ==
  \E i \in DOMAIN requests :
    /\ requests[i].type = "TRACK_CLICK"
    /\ requests[i].pc = "settings"
    /\ IF ~StoredSettings(syncStore).trackHistory
       THEN Respond(i, Response("TRACK_CLICK", requests[i].url, TRUE, FALSE))
       ELSE /\ requests' = [requests EXCEPT ![i].pc = "history"]
            /\ UNCHANGED lastResponse
    /\ UNCHANGED <<syncStore, localStore, tabNotified>>
    /\ UNCHANGED <<pvars, evars, lastCall, cvars, clicks, hvars, gvars, nvars, uvars>>

\* trackLinkClick resumes with the history, builds the entry and writes.
TrackHistoryRead ==
  \E i \in DOMAIN requests : \E random \in RandomSuffixes :
    /\ requests[i].type = "TRACK_CLICK"
    /\ requests[i].pc = "history"
    /\ requests' =
         [requests EXCEPT ![i] =
            TrackEntryBuilt(@, StoredHistory(localStore),
                            HistoryEntry(requests[i].url, now, random))]
    /\ UNCHANGED <<syncStore, localStore, tabNotified, lastResponse>>
    /\ UNCHANGED <<pvars, evars, lastCall, cvars, clicks, hvars, gvars, nvars, uvars>>

\* The write of the history is done.
TrackHistorySaved ==
  \E i \in DOMAIN requests :
    /\ requests[i].type = "TRACK_CLICK"
    /\ requests[i].pc = "saveHistory"
    /\ localStore' = MapPut(localStore, "clickHistory", requests[i].trimmedHistory)
    /\ requests' = [requests EXCEPT ![i].pc = "stats"]
    /\ UNCHANGED <<syncStore, tabNotified, lastResponse>>
    /\ UNCHANGED <<pvars, evars, lastCall, cvars, clicks, hvars, gvars, nvars, uvars>>

\* trackLinkClick resumes with the stats, counts the click and writes.
TrackStatsRead ==
  \E i \in DOMAIN requests :
    /\ requests[i].type = "TRACK_CLICK"
    /\ requests[i].pc = "stats"
    /\ requests' =
         [requests EXCEPT ![i].pc = "saveStats",
                          ![i].stats = CountClick(StoredStats(localStore),
                                                  requests[i].entry.hostname)]
    /\ UNCHANGED <<syncStore, localStore, tabNotified, lastResponse>>
    /\ UNCHANGED <<pvars, evars, lastCall, cvars, clicks, hvars, gvars, nvars, uvars>>

\* The write of the stats is done: { success: true, tracked: true }.
TrackStatsSaved ==
  \E i \in DOMAIN requests :
    /\ requests[i].type = "TRACK_CLICK"
    /\ requests[i].pc = "saveStats"
    /\ localStore' = MapPut(localStore, "stats", requests[i].stats)
    /\ Respond(i, Response("TRACK_CLICK", requests[i].url, TRUE, TRUE))
    /\ UNCHANGED <<syncStore, tabNotified>>
    /\ UNCHANGED <<pvars, evars, lastCall, cvars, clicks, hvars, gvars, nvars, uvars>>

\* The popup sends UPDATE_SETTINGS with the keys the user changed.
BackgroundMessages == {[trackHistory |-> FALSE], [trackHistory |-> TRUE]}

ReceiveUpdateSettings(message) ==
  /\ Len(requests) < MaxRequests
  /\ requests' = Append(requests, Handler("UPDATE_SETTINGS", "settings", NoUrl, message))
  /\ UNCHANGED <<syncStore, localStore, tabNotified, lastResponse>>
  /\ UNCHANGED <<pvars, evars, lastCall, cvars, clicks, hvars, gvars, nvars, uvars>>

\* updateSettings resumes with the settings, merges and writes.
UpdateSettingsRead ==
  \E i \in DOMAIN requests :
    /\ requests[i].type = "UPDATE_SETTINGS"
    /\ requests[i].pc = "settings"
    /\ requests' =
         [requests EXCEPT ![i].pc = "save",
                          ![i].settings = StoredSettings(syncStore),
                          ![i].updatedSettings =
                            MapMerge(StoredSettings(syncStore), requests[i].message)]
    /\ UNCHANGED <<syncStore, localStore, tabNotified, lastResponse>>
    /\ UNCHANGED <<pvars, evars, lastCall, cvars, clicks, hvars, gvars, nvars, uvars>>

\* The write of the settings is done; the tabs are asked for.
UpdateSettingsSaved ==
  \E i \in DOMAIN requests :
    /\ requests[i].type = "UPDATE_SETTINGS"
    /\ requests[i].pc = "save"
    /\ syncStore' = MapPut(syncStore, "settings", requests[i].updatedSettings)
    /\ requests' = [requests EXCEPT ![i].pc = "notify", ![i].tabIndex = 1]
    /\ UNCHANGED <<localStore, tabNotified, lastResponse>>
    /\ UNCHANGED <<pvars, evars, lastCall, cvars, clicks, hvars, gvars, nvars, uvars>>

\* One turn of the loop over the tabs: SETTINGS_UPDATED has been sent to
\* the tab, which received it, or rejected it (the catch is empty); after
\* the last tab the handler answers { success: true, settings }.
UpdateSettingsNotified ==
  \E i \in DOMAIN requests :
    /\ requests[i].type = "UPDATE_SETTINGS"
    /\ requests[i].pc = "notify"
    /\ tabNotified' =
         IF Tabs[requests[i].tabIndex] \in TabsWithoutContentScript
         THEN tabNotified
         ELSE [tabNotified EXCEPT ![Tabs[requests[i].tabIndex]] =
                                    requests[i].updatedSettings]
    /\ IF requests[i].tabIndex < Len(Tabs)
       THEN /\ requests' = [requests EXCEPT ![i].tabIndex = @ + 1]
            /\ UNCHANGED <<lastResponse, uvars>>
       ELSE /\ Respond(i, SettingsResponse("UPDATE_SETTINGS",
                                           requests[i].updatedSettings))
            /\ PopupAnswered(SettingsResponse("UPDATE_SETTINGS",
                                              requests[i].updatedSettings))
    /\ UNCHANGED <<syncStore, localStore>>
    /\ UNCHANGED <<pvars, evars, lastCall, cvars, clicks, hvars, gvars, nvars>>

\* The popup or a content script asks for the settings.
ReceiveGetSettings ==
  /\ Len(requests) < MaxRequests
  /\ requests' = Append(requests, Handler("GET_SETTINGS", "settings", NoUrl, EmptyMap))
  /\ UNCHANGED <<syncStore, localStore, tabNotified, lastResponse>>
  /\ UNCHANGED <<pvars, evars, lastCall, cvars, clicks, hvars, gvars, nvars, uvars>>

\* getSettings resumes with the settings and answers them merged over the
\* defaults.
GetSettingsRead ==
  \E i \in DOMAIN requests :
    /\ requests[i].type = "GET_SETTINGS"
    /\ requests[i].pc = "settings"
    /\ Respond(i, SettingsResponse("GET_SETTINGS",
                                   MapMerge(DEFAULT_SETTINGS,
                                            StoredSettings(syncStore))))
    /\ UNCHANGED <<syncStore, localStore, tabNotified>>
    /\ UNCHANGED <<pvars, evars, lastCall, cvars, clicks, hvars, gvars, nvars, uvars>>

\* onInstalled with reason 'update', while the stored settings lack a key
\* of the defaults: the handler reads the settings ...
OnUpdated ==
  /\ "settings" \in DOMAIN syncStore
  /\ DOMAIN DEFAULT_SETTINGS \ DOMAIN syncStore["settings"] # {}
  /\ \A i \in DOMAIN requests : requests[i].type # "onInstalled"
  /\ Len(requests) < MaxRequests
  /\ requests' = Append(requests, Handler("onInstalled", "settings", NoUrl, EmptyMap))
  /\ UNCHANGED <<syncStore, localStore, tabNotified, lastResponse>>
  /\ UNCHANGED <<pvars, evars, lastCall, cvars, clicks, hvars, gvars, nvars, uvars>>

\* ... merges them over the defaults ...
OnUpdatedRead ==
  \E i \in DOMAIN requests :
    /\ requests[i].type = "onInstalled"
    /\ requests[i].pc = "settings"
    /\ requests' =
         [requests EXCEPT ![i].pc = "save",
                          ![i].updatedSettings =
                            MapMerge(DEFAULT_SETTINGS,
                                     StorageGet(syncStore, "settings", EmptyMap))]
    /\ UNCHANGED <<syncStore, localStore, tabNotified, lastResponse>>
    /\ UNCHANGED <<pvars, evars, lastCall, cvars, clicks, hvars, gvars, nvars, uvars>>

\* ... and writes them; the listener answers nobody.
OnUpdatedSaved ==
  \E i \in DOMAIN requests :
    /\ requests[i].type = "onInstalled"
    /\ requests[i].pc = "save"
    /\ syncStore' = MapPut(syncStore, "settings", requests[i].updatedSettings)
    /\ requests' = RemoveAt(requests, i)
    /\ UNCHANGED <<localStore, tabNotified, lastResponse>>
    /\ UNCHANGED <<pvars, evars, lastCall, cvars, clicks, hvars, gvars, nvars, uvars>>

\* The bodies unshorten.me can answer a request for url with.
ExpandBodies(url) ==
  {[kind |-> "unparsable"], [kind |-> "null"]}
  \cup {Unshortened(resolved) :
          resolved \in {JsUndefined, JsNull, JsString(<<>>), JsString(url),
                        JsString(UrlA), JsString(UrlShort)}}

\* EXPAND_URL{url}: expandShortUrl asks unshorten.me.
ReceiveExpandUrl(url) ==
  /\ Len(requests) < MaxRequests
  /\ requests' = Append(requests, Handler("EXPAND_URL", "fetch", url, EmptyMap))
  /\ UNCHANGED <<syncStore, localStore, tabNotified, lastResponse>>
  /\ UNCHANGED <<pvars, evars, lastCall, cvars, clicks, hvars, gvars, nvars, uvars>>

\* await fetch(...) settles: a rejection goes to the inner catch and to the
\* fallback, a response to response.json().
ExpandFetchSettled ==
  \E i \in DOMAIN requests :
    \E answer \in {NetworkError} \cup {ApiResponse(data) : data \in ExpandBodies(requests[i].url)} :
      /\ requests[i].type = "EXPAND_URL"
      /\ requests[i].pc = "fetch"
      /\ IF answer.kind = "reject"
         THEN Respond(i, CouldNotExpand(requests[i].url))
         ELSE /\ requests' = [requests EXCEPT ![i].pc = "json",
                                              ![i].fetched = answer]
              /\ UNCHANGED lastResponse
      /\ UNCHANGED <<syncStore, localStore, tabNotified>>
      /\ UNCHANGED <<pvars, evars, lastCall, cvars, clicks, hvars, gvars, nvars, uvars>>

\* await response.json() settles and the handler answers.
ExpandJsonSettled ==
  \E i \in DOMAIN requests :
    /\ requests[i].type = "EXPAND_URL"
    /\ requests[i].pc = "json"
    /\ Respond(i, ExpandFromBody(requests[i].url, requests[i].fetched.body))
    /\ UNCHANGED <<syncStore, localStore, tabNotified>>
    /\ UNCHANGED <<pvars, evars, lastCall, cvars, clicks, hvars, gvars, nvars, uvars>>

ReceiveClearHistory ==
  /\ Len(requests) < MaxRequests
  /\ requests' = Append(requests, Handler("CLEAR_HISTORY", "clear", NoUrl, EmptyMap))
  /\ UNCHANGED <<syncStore, localStore, tabNotified, lastResponse>>
  /\ UNCHANGED <<pvars, evars, lastCall, cvars, clicks, hvars, gvars, nvars, uvars>>

\* clearClickHistory's one write is done.
HistoryCleared ==
  \E i \in DOMAIN requests :
    /\ requests[i].type = "CLEAR_HISTORY"
    /\ requests[i].pc = "clear"
    /\ localStore' = MapPut(MapPut(localStore, "clickHistory", <<>>),
                            "stats", NoStats)
    /\ Respond(i, Response("CLEAR_HISTORY", NoUrl, TRUE, FALSE))
    /\ UNCHANGED <<syncStore, tabNotified>>
    /\ UNCHANGED <<pvars, evars, lastCall, cvars, clicks, hvars, gvars, nvars, uvars>>

InitBackground ==
  /\ syncStore = EmptyMap
  /\ localStore = EmptyMap
  /\ requests = <<>>
  /\ tabNotified = [tab \in Range(Tabs) |-> EmptyMap]
  /\ lastResponse = NoResponse
  /\ clicks = 0

\* The pointer moves to another element, or leaves or enters the window.
PointerMove(to) ==
  /\ to # pointer
  /\ CanEnter(Manager, to)
  /\ pointer' = to
  /\ hoverDelayTimeout' = MovedTimeout(settings, hoverDelayTimeout, pointer, to)
  /\ Commit(MouseLeave(Manager, pointer, to))
  /\ UNCHANGED <<evars, lastCall, cvars>>
  /\ UNCHANGED <<bvars, gvars, nvars, uvars>>

\* The timer of handleLinkHover fires: manager.show(link, url) after
\* 100 ms, or manager.hide() after 150 ms.
HoverTimerFire ==
  /\ hoverDelayTimeout.kind # "none"
  /\ LET m == IF hoverDelayTimeout.kind = "show"
              THEN ShowOp(Manager, hoverDelayTimeout.url, now)
              ELSE HideOp(Manager)
     IN /\ Len(m.showFetches) <= MaxInFlight
        /\ Commit(m)
  /\ hoverDelayTimeout' = NoTimeout
  /\ UNCHANGED <<pointer, evars, lastCall, cvars>>
  /\ UNCHANGED <<bvars, gvars, nvars, uvars>>

\* A click on the QR button of the card.
ToggleQR ==
  /\ pointer.kind = "card"
  /\ card.visible
  /\ Commit(ToggleQRPopup(Manager))
  /\ UNCHANGED <<pointer, hoverDelayTimeout, evars, lastCall, cvars>>
  /\ UNCHANGED <<bvars, gvars, nvars, uvars>>

InitHover ==
  /\ pointer = Over("outside", NoUrl)
  /\ hoverDelayTimeout = NoTimeout

\* A click on the expand button of the card; a disabled button fires no
\* click event.
ExpandClick ==
  /\ pointer.kind = "card"
  /\ card.visible
  /\ ~expandBtn.disabled
  /\ Len(expandCalls) < MaxExpandCalls
  /\ Commit(ExpandCurrentUrlOp(Manager, runtimeValid))
  /\ UNCHANGED <<pointer, hoverDelayTimeout, evars, lastCall, cvars>>
  /\ UNCHANGED <<bvars, gvars, nvars, uvars>>

\* The EXPAND_URL message of an expandCurrentUrl call settles.
ExpandSettled ==
  \E i \in DOMAIN expandCalls : \E outcome \in ExpandOutcomes(expandCalls[i]) :
    /\ Commit(ExpandSettledOp(
                [Manager EXCEPT !.expandCalls = RemoveAt(expandCalls, i)],
                outcome))
    /\ UNCHANGED <<pointer, hoverDelayTimeout, evars, lastCall, cvars>>
    /\ UNCHANGED <<bvars, gvars, nvars, uvars>>

\* A click on the link area of the card.
CardClick ==
  /\ pointer.kind = "card"
  /\ card.visible
  /\ hideTimers < MaxHideTimers
  /\ Commit(LinkAreaClick(Manager))
  /\ UNCHANGED <<pointer, hoverDelayTimeout, evars, lastCall, cvars>>
  /\ UNCHANGED <<bvars, gvars, nvars, uvars>>

\* The 100 ms timer of a card click fires.
CardClickTimerFire ==
  /\ hideTimers > 0
  /\ Commit(HideOp([Manager EXCEPT !.hideTimers = @ - 1]))
  /\ UNCHANGED <<pointer, hoverDelayTimeout, evars, lastCall, cvars>>
  /\ UNCHANGED <<bvars, gvars, nvars, uvars>>

\* fetchPreviewData calls fetchGenericPreview(url, domain): the record for
\* instagram.com is returned at once, any other url goes to the service.
FetchGenericPreview(url) ==
  /\ Len(genericCalls) < MaxGenericCalls
  /\ genericCalls' =
       Append(genericCalls,
              IF IsInstagramDomain(PreviewDomain(url))
              THEN GenericCall(url, PreviewDomain(url), "returned", NotSettled,
                               InstagramRecord(url))
              ELSE GenericCall(url, PreviewDomain(url), "fetch", NotSettled,
                               NoRecord))
  /\ UNCHANGED <<hvars, bvars, pvars, evars, lastCall, cvars, nvars, uvars>>

\* await fetch(apiUrl) settles: a rejection goes to the catch block, a
\* response to response.json().
ApiFetchSettled ==
  \E i \in DOMAIN genericCalls :
    \E answer \in {NetworkError} \cup {ApiResponse(body) : body \in ApiBodies} :
      /\ genericCalls[i].pc = "fetch"
      /\ genericCalls' =
           [genericCalls EXCEPT
              ![i].settled = answer,
              ![i].pc = IF answer.kind = "reject" THEN "returned" ELSE "json",
              ![i].result = IF answer.kind = "reject"
                            THEN FallbackRecord(genericCalls[i].url,
                                                genericCalls[i].domain)
                            ELSE NoRecord]
      /\ UNCHANGED <<hvars, bvars, pvars, evars, lastCall, cvars, nvars, uvars>>

\* await response.json() settles and the handler returns its record.
ApiJsonSettled ==
  \E i \in DOMAIN genericCalls :
    /\ genericCalls[i].pc = "json"
    /\ genericCalls' =
         [genericCalls EXCEPT
            ![i].pc = "returned",
            ![i].result = GenericFromBody(genericCalls[i].url,
                                          genericCalls[i].domain,
                                          genericCalls[i].settled.body)]
    /\ UNCHANGED <<hvars, bvars, pvars, evars, lastCall, cvars, nvars, uvars>>

\* The caller resumes with the record.
GenericPreviewTaken ==
  \E i \in DOMAIN genericCalls :
    /\ genericCalls[i].pc = "returned"
    /\ genericCalls' = RemoveAt(genericCalls, i)
    /\ UNCHANGED <<hvars, bvars, pvars, evars, lastCall, cvars, nvars, uvars>>

InitGeneric == genericCalls = <<>>

(***************************************************************************)
(* URL change detection (content.js 563-592): popstate and the patched     *)
(* history.pushState and history.replaceState call onUrlChange.            *)
(***************************************************************************)
\* The values of location.href.
Locations == {"/", "/p/1", "/reel/2"}

\* updateBadge(): the UPDATE_BADGE message sent.  sendMessage throws once
\* the extension context is invalidated; the catch swallows it.
NoBadge == [sent |-> FALSE, count |-> 0]

updateBadge(count, valid) ==
  IF valid THEN [sent |-> TRUE, count |-> count] ELSE NoBadge

\* Variant: onUrlChange with updateBadge() before linkCount = 0.
OnUrlChangeBadgeFirst(c, href, last, valid) ==
  IF href = last THEN [content |-> c, lastUrl |-> last, badge |-> NoBadge]
  ELSE [content |-> findAndProcessLinks([c EXCEPT !.linkCount = 0]),
        lastUrl |-> href,
        badge |-> updateBadge(c.linkCount, valid)]

\* onUrlChange: last is lastUrl, href is location.href.
onUrlChange(c, href, last, valid) ==
  IF href = last THEN [content |-> c, lastUrl |-> last, badge |-> NoBadge]
  ELSE LET reset == [c EXCEPT !.linkCount = 0]
       IN [content |-> findAndProcessLinks(reset),
           lastUrl |-> href,
           badge |-> updateBadge(reset.linkCount, valid)]

\* pushState, replaceState or a popstate event, location.href being href
\* afterwards.
HistoryChange(href) ==
  LET r == onUrlChange(Content, href, lastUrl, runtimeValid)
  IN /\ locationHref' = href
     /\ lastUrl' = r.lastUrl
     /\ lastBadge' = r.badge
     /\ CommitContent(r.content)
     /\ UNCHANGED <<evars, lastCall, bvars, hvars, gvars, uvars>>

InitNavigation ==
  /\ locationHref = "/"
  /\ lastUrl = "/"
  /\ lastBadge = NoBadge

Init == InitPreview /\ InitContent /\ InitBackground /\ InitHover /\ InitGeneric /\ InitNavigation /\ InitPopup

NextPreview ==
  \/ \E url \in PreviewUrls : PreloadLink(url)
  \/ RestartTimerFire
  \/ DrainFetchDone
  \/ DrainPaceDone
  \/ \E url \in PreviewUrls : Show(url)
  \/ ShowFetchDone
  \/ Hide
  \/ Tick
  \/ InvalidateRuntime

SpecPreview == Init /\ [][NextPreview]_vars

(***************************************************************************)
(* The preload queue alone, over more urls than one batch holds.  The      *)
(* external call answers with data.                                        *)
(***************************************************************************)
DrainOutcomes == {"okImage"}

DrainFetchDoneOk == DrainFetchDoneWith(DrainOutcomes)

\* The six urls differ in their last character only and are treated alike,
\* so they are numbered in the order in which the page first shows them:
\* a url is first requested after every url with a smaller number.
SeenByPreload(url) == url \in Range(preloadQueue) \/ url \in apiRequests

PreloadInOrder ==
  \E i \in 1..6 :
    /\ \A j \in 1..(i - 1) : SeenByPreload(DrainUrl(j))
    /\ PreloadLink(DrainUrl(i))

NextDrain ==
  \/ PreloadInOrder
  \/ RestartTimerFire
  \/ DrainFetchDoneOk
  \/ DrainPaceDone
  \/ InvalidateRuntime

SpecDrain == Init /\ [][NextDrain]_vars

\* The timers and the network answer: a pending timer fires, a pending
\* request settles.
FairDrain ==
  /\ WF_vars(RestartTimerFire)
  /\ WF_vars(DrainFetchDoneOk)
  /\ WF_vars(DrainPaceDone)

SpecDrainFair == SpecDrain /\ FairDrain

(***************************************************************************)
(* show, hide and the metadata answers alone, over two urls that need the  *)
(* external service and one that a site handler resolves.                  *)
(***************************************************************************)
ShowUrls == {UrlA, DrainUrl(1), UrlY}

ShowAny == \E url \in ShowUrls : Show(url)

NextShow ==
  \/ ShowAny
  \/ ShowFetchDone
  \/ Hide

SpecShow == Init /\ [][NextShow]_vars

(***************************************************************************)
(* Preloading and hovering over time: cache entries age past their time to *)
(* live, and every preloadLink call is recorded with what it did.          *)
(***************************************************************************)
TtlUrls == {UrlA, UrlY}

\* Whether the call that took the manager from m0 to m put url into the
\* queue, or into the drain that it started.
Enqueued(m0, m, url) ==
  \/ url \in Range(m.preloadQueue)
  \/ /\ Len(m.drains) > Len(m0.drains)
     /\ m.drains[Len(m.drains)].cur = url

PreloadLinkCall(url) ==
  LET m == PreloadLinkOp(Manager, url, now, runtimeValid)
  IN /\ Commit(m)
     /\ lastCall' = [url |-> url,
                     stale |-> /\ CacheHas(Manager, url)
                               /\ CacheExpired(cache[url], now),
                     enqueued |-> Enqueued(Manager, m, url)]
     /\ UNCHANGED <<evars, cvars, bvars, hvars, gvars, nvars, uvars>>

PreloadAny == \E url \in TtlUrls : PreloadLinkCall(url)

ShowTtl == \E url \in TtlUrls : Show(url)

NextTtl ==
  \/ PreloadAny
  \/ RestartTimerFire
  \/ DrainFetchDone
  \/ DrainPaceDone
  \/ ShowTtl
  \/ ShowFetchDone
  \/ Tick

SpecTtl == Init /\ [][NextTtl]_vars

(***************************************************************************)
(* The content script on a page whose spans are reused for other text.     *)
(* The metadata service does not answer in these behaviours: the urls the  *)
(* new anchors preload wait in the manager, and the extension is not      *)
(* reloaded while the page lives.                                          *)
(***************************************************************************)
PageSetsAnyText == \E s \in Spans : \E text \in PageTexts : PageSetsText(s, text)

SettingsUpdatedAny == \E message \in ContentMessages : SettingsUpdated(message)

NextContent ==
  \/ PageSetsAnyText
  \/ FindAndProcessLinks
  \/ DialogRestyled
  \/ DebounceFire
  \/ AnimationFrame
  \/ Sweep
  \/ SettingsUpdatedAny

SpecContent == Init /\ [][NextContent]_vars

(***************************************************************************)
(* The background service worker serving clicks and settings changes, up   *)
(* to MaxRequests handlers at a time.                                      *)
(***************************************************************************)
ClickedUrls == {UrlA, UrlI}

ReceiveAnyTrackClick == \E url \in ClickedUrls : ReceiveTrackClick(url)

ReceiveAnyUpdateSettings ==
  \E message \in BackgroundMessages : ReceiveUpdateSettings(message)

NextBackground ==
  \/ OnInstalled
  \/ ReceiveAnyTrackClick
  \/ TrackSettingsRead
  \/ TrackHistoryRead
  \/ TrackHistorySaved
  \/ TrackStatsRead
  \/ TrackStatsSaved
  \/ ReceiveAnyUpdateSettings
  \/ UpdateSettingsRead
  \/ UpdateSettingsSaved
  \/ UpdateSettingsNotified

SpecBackground == Init /\ [][NextBackground]_vars

(***************************************************************************)
(* Clicks and history clears with the settings of the installation, on a   *)
(* store that is empty or one click short of the cap.                      *)
(***************************************************************************)
InitHistory ==
  /\ InitPreview
  /\ InitContent
  /\ InitHover
  /\ InitGeneric
  /\ InitNavigation
  /\ InitPopup
  /\ syncStore = EmptyMap
  /\ localStore \in {EmptyMap, KeptStore}
  /\ requests = <<>>
  /\ tabNotified = [tab \in Range(Tabs) |-> EmptyMap]
  /\ lastResponse = NoResponse
  /\ clicks = 0

NextHistory ==
  \/ OnInstalled
  \/ ReceiveAnyTrackClick
  \/ TrackSettingsRead
  \/ TrackHistoryRead
  \/ TrackHistorySaved
  \/ TrackStatsRead
  \/ TrackStatsSaved
  \/ ReceiveClearHistory
  \/ HistoryCleared
  \/ Tick

SpecHistory == InitHistory /\ [][NextHistory]_vars

(***************************************************************************)
(* Clicks with the settings never changed by the user, on an empty store:  *)
(* up to MaxRequests handlers interleave at their awaits.                  *)
(***************************************************************************)
NextClicks ==
  \/ OnInstalled
  \/ ReceiveGetSettings
  \/ GetSettingsRead
  \/ ReceiveAnyTrackClick
  \/ TrackSettingsRead
  \/ TrackHistoryRead
  \/ TrackHistorySaved
  \/ TrackStatsRead
  \/ TrackStatsSaved
  \/ Tick

SpecClicks == Init /\ [][NextClicks]_vars

(***************************************************************************)
(* Clicks and a history clear: once CLEAR_HISTORY has been answered no     *)
(* further click is sent until another response has gone out, so the       *)
(* trackLinkClick handlers still running then all started before the clear *)
(* was answered.                                                           *)
(***************************************************************************)
ReceiveTrackClickUncleared ==
  /\ lastResponse.type # "CLEAR_HISTORY"
  /\ ReceiveAnyTrackClick

NextClear ==
  \/ OnInstalled
  \/ ReceiveTrackClickUncleared
  \/ TrackSettingsRead
  \/ TrackHistoryRead
  \/ TrackHistorySaved
  \/ TrackStatsRead
  \/ TrackStatsSaved
  \/ ReceiveClearHistory
  \/ HistoryCleared
  \/ Tick

SpecClear == Init /\ [][NextClear]_vars

(***************************************************************************)
(* Settings changes, one at a time (the popup sends UPDATE_SETTINGS when   *)
(* the user flips a switch), with GET_SETTINGS at any moment, on a store   *)
(* that is empty or holds the settings of an earlier version.              *)
(***************************************************************************)
SettingsMessages == BackgroundMessages \cup {[enabled |-> FALSE]}

SettingsWriters ==
  {i \in DOMAIN requests : requests[i].type \in {"UPDATE_SETTINGS", "onInstalled"}}

ReceiveUpdateSettingsAlone ==
  /\ SettingsWriters = {}
  /\ \E message \in SettingsMessages : ReceiveUpdateSettings(message)

OnUpdatedAlone ==
  /\ SettingsWriters = {}
  /\ OnUpdated

InitSettings ==
  /\ InitPreview
  /\ InitContent
  /\ InitHover
  /\ InitGeneric
  /\ InitNavigation
  /\ InitPopup
  /\ syncStore \in {EmptyMap, MapPut(EmptyMap, "settings", LegacySettings)}
  /\ localStore = EmptyMap
  /\ requests = <<>>
  /\ tabNotified = [tab \in Range(Tabs) |-> EmptyMap]
  /\ lastResponse = NoResponse
  /\ clicks = 0

NextSettings ==
  \/ OnInstalled
  \/ OnUpdatedAlone
  \/ OnUpdatedRead
  \/ OnUpdatedSaved
  \/ ReceiveUpdateSettingsAlone
  \/ UpdateSettingsRead
  \/ UpdateSettingsSaved
  \/ UpdateSettingsNotified
  \/ ReceiveGetSettings
  \/ GetSettingsRead

SpecSettings == InitSettings /\ [][NextSettings]_vars

(***************************************************************************)
(* Hovering over two anchors, the card and the QR popup, with preloads     *)
(* whose metadata calls do not settle.                                     *)
(***************************************************************************)
PointerMoveAny == \E to \in PointerPlaces : PointerMove(to)

NextHover ==
  \/ PointerMoveAny
  \/ HoverTimerFire
  \/ ToggleQR
  \/ ShowFetchDone
  \/ PreloadAny

SpecHover == Init /\ [][NextHover]_vars

\* A pending timer of the page fires.
FairHover == WF_vars(HoverTimerFire)

SpecHoverFair == SpecHover /\ FairHover

(***************************************************************************)
(* The generic metadata handler under every answer of the service.         *)
(***************************************************************************)
FetchAnyGenericPreview == \E url \in GenericUrls : FetchGenericPreview(url)

NextGeneric ==
  \/ FetchAnyGenericPreview
  \/ ApiFetchSettled
  \/ ApiJsonSettled
  \/ GenericPreviewTaken

SpecGeneric == Init /\ [][NextGeneric]_vars

(***************************************************************************)
(* EXPAND_URL under every answer of the resolution service.                *)
(***************************************************************************)
ExpandUrls == {UrlShort, UrlA}

ReceiveAnyExpandUrl == \E url \in ExpandUrls : ReceiveExpandUrl(url)

NextExpand ==
  \/ ReceiveAnyExpandUrl
  \/ ExpandFetchSettled
  \/ ExpandJsonSettled

SpecExpand == Init /\ [][NextExpand]_vars

(***************************************************************************)
(* The content script on a page that shows the caption of ExampleTexts.    *)
(***************************************************************************)
PageSetsExampleText ==
  \E s \in Spans : \E text \in ExampleTexts : PageSetsText(s, text)

NextExample ==
  \/ PageSetsExampleText
  \/ FindAndProcessLinks
  \/ DebounceFire
  \/ AnimationFrame
  \/ SettingsUpdatedAny

SpecExample == Init /\ [][NextExample]_vars

(***************************************************************************)
(* The link processor.  A timer that is left pending fires and a requested *)
(* animation frame comes; a timer that processDebounced() clears does not  *)
(* fire.  The extension context may be invalidated at any time.            *)
(***************************************************************************)
NextProcessor ==
  \/ PageSetsExampleText
  \/ FindAndProcessLinks
  \/ DialogRestyled
  \/ DebounceFire
  \/ AnimationFrame
  \/ Sweep
  \/ InvalidateRuntime

SpecProcessor == Init /\ [][NextProcessor]_vars

\* The requested animation frame comes: the step of AnimationFrame.
FrameComes == framePending > 0 /\ framePending' = framePending - 1

\* The timer with this id fires: the step of DebounceFire on that timer.
TimerFires(id) == debounceTimer = id /\ debounceTimer' = NoTimer

FairProcessor ==
  /\ WF_framePending(FrameComes)
  /\ \A id \in TimerIds : WF_debounceTimer(TimerFires(id))

SpecProcessorFair == SpecProcessor /\ FairProcessor

(***************************************************************************)
(* The content script on a page whose spans are given a caption with one   *)
(* url, with the extension switched off and on, the periodic sweep, and    *)
(* the processor's timer and frame served.                                 *)
(***************************************************************************)
PageSetsCaption == \E s \in Spans : PageSetsText(s, S_seeExample)

NextRescan ==
  \/ PageSetsCaption
  \/ FindAndProcessLinks
  \/ DialogRestyled
  \/ DebounceFire
  \/ AnimationFrame
  \/ Sweep
  \/ SettingsUpdatedAny

SpecRescan == Init /\ [][NextRescan]_vars

\* The interval fires on a visible page while a span carries a stale mark:
\* the step of Sweep that clears the marks of those spans.
SweepClears ==
  /\ settings.enabled
  /\ \E s \in Spans : HasStaleMark(Content, s)
  /\ processed' = processed \ {s \in Spans : HasStaleMark(Content, s)}

FairSweep == WF_processed(SweepClears)

SpecRescanFair == SpecRescan /\ FairProcessor /\ FairSweep

(***************************************************************************)
(* Previews switched off and on while the page is linkified, anchors come  *)
(* into view and the pointer moves over them.                              *)
(***************************************************************************)
\* The urls of the anchors on the page.
AnchorUrls ==
  UNION {{spanNodes[s][i].dataUrl :
            i \in {j \in DOMAIN spanNodes[s] : spanNodes[s][j].kind = "a"}} :
         s \in Spans}

\* SETTINGS_UPDATED messages of the popup's "Show link preview" switch.
PreviewMessages == {[showPreview |-> FALSE], [showPreview |-> TRUE]}

PreviewSwitched == \E message \in PreviewMessages : SettingsUpdated(message)

\* The intersection observer reports an anchor as visible.
LinkIntersects ==
  \E url \in AnchorUrls :
    /\ Commit(IF settings.showPreview
              THEN PreloadLinkOp(Manager, url, now, runtimeValid)
              ELSE Manager)
    /\ UNCHANGED <<evars, lastCall, cvars, bvars, hvars, gvars, nvars, uvars>>

\* The pointer moves; it can be over an anchor that is on the page.
PointerMoveOnPage ==
  \E to \in PointerPlaces :
    /\ to.kind = "link" => to.url \in AnchorUrls
    /\ PointerMove(to)

NextPreviewOff ==
  \/ PageSetsCaption
  \/ FindAndProcessLinks
  \/ DebounceFire
  \/ AnimationFrame
  \/ PreviewSwitched
  \/ LinkIntersects
  \/ PointerMoveOnPage
  \/ HoverTimerFire
  \/ ShowFetchDone

SpecPreviewOff == Init /\ [][NextPreviewOff]_vars

(***************************************************************************)
(* Linkification left to itself: the page puts captions into its spans,    *)
(* one with a url and one that the pattern matches and the sanitizer       *)
(* rejects; scans, the sweep, the timer and the frames go on.              *)
(***************************************************************************)
QuiesceTexts == {S_seeExample, S_colonHost}

PageSetsQuiesceText ==
  \E s \in Spans : \E text \in QuiesceTexts : PageSetsText(s, text)

NextQuiesce ==
  \/ PageSetsQuiesceText
  \/ FindAndProcessLinks
  \/ DialogRestyled
  \/ DebounceFire
  \/ AnimationFrame
  \/ Sweep

SpecQuiesce == Init /\ [][NextQuiesce]_vars

SpecQuiesceFair == SpecQuiesce /\ FairProcessor /\ FairSweep

(***************************************************************************)
(* Navigation inside the single-page site while the page is linkified.     *)
(***************************************************************************)
HistoryChangeAny == \E href \in Locations : HistoryChange(href)

NextNavigate ==
  \/ PageSetsCaption
  \/ DebounceFire
  \/ AnimationFrame
  \/ SettingsUpdatedAny
  \/ InvalidateRuntime
  \/ HistoryChangeAny

SpecNavigate == Init /\ [][NextNavigate]_vars

(***************************************************************************)
(* The linkifier on spans that hold elements and white space.              *)
(***************************************************************************)
PageSetsMixed ==
  \E s \in Spans : \E nodes \in MixedContents : PageSetsNodes(s, nodes)

NextLinkify ==
  \/ PageSetsMixed
  \/ FindAndProcessLinks
  \/ DialogRestyled
  \/ DebounceFire
  \/ AnimationFrame
  \/ Sweep
  \/ InvalidateRuntime

SpecLinkify == Init /\ [][NextLinkify]_vars

(***************************************************************************)
(* The card under hovering, QR clicks, card clicks and expansions.         *)
(***************************************************************************)
NextCard ==
  \/ PointerMoveAny
  \/ HoverTimerFire
  \/ ToggleQR
  \/ ShowFetchDone
  \/ ExpandClick
  \/ ExpandSettled
  \/ CardClick
  \/ CardClickTimerFire

SpecCard == Init /\ [][NextCard]_vars

(***************************************************************************)
(* Dead links: the page is linkified, the pointer moves over the anchors,  *)
(* the metadata service answers, and the popup changes the link style.     *)
(***************************************************************************)
\* SETTINGS_UPDATED messages of the popup's link style choice.
StyleMessages == {[linkStyle |-> "bold"], [linkStyle |-> "default"]}

StyleChanged == \E message \in StyleMessages : SettingsUpdated(message)

NextDeadLink ==
  \/ PageSetsCaption
  \/ FindAndProcessLinks
  \/ DebounceFire
  \/ AnimationFrame
  \/ PointerMoveOnPage
  \/ HoverTimerFire
  \/ ShowFetchDone
  \/ StyleChanged

SpecDeadLink == Init /\ [][NextDeadLink]_vars

(***************************************************************************)
(* The dispatch of fetchPreviewData: the card is shown for urls on listed  *)
(* sites and on other hosts.                                               *)
(***************************************************************************)
ShowDispatched == \E url \in DispatchUrls : Show(url)

NextDispatch ==
  \/ ShowDispatched
  \/ ShowFetchDone
  \/ Hide
  \/ Tick

SpecDispatch == Init /\ [][NextDispatch]_vars

(***************************************************************************)
(* The popup's switches and the UPDATE_SETTINGS handlers they start.       *)
(***************************************************************************)
PopupToggleAny == \E id \in Range(settingIds) : PopupToggle(id)

NextPopup ==
  \/ PopupOpens
  \/ PopupToggleAny
  \/ UpdateSettingsRead
  \/ UpdateSettingsSaved
  \/ UpdateSettingsNotified

SpecPopup == Init /\ [][NextPopup]_vars

(***************************************************************************)
(* Properties of the preview manager                                       *)
(***************************************************************************)
\* C1: when the metadata request started by show(A) settles after a later
\* show(B), B # A, or after hide(), nothing of A is rendered: while a url is
\* current the card shows the loading state or that url's data, and the
\* settling of a request for another url leaves the card as it is.
C1_StaleShowResultIsDropped ==
  /\ [](currentUrl # NoUrl /\ card.view # "loading"
          => card.data.url = currentUrl)
  /\ [][\A i \in DOMAIN showFetches :
          (showFetches[i] # currentUrl
             /\ showFetches' = RemoveAt(showFetches, i))
          => card' = card]_vars

\* The request for UrlA has settled without being cached, so it was
\* dropped, and the card shows the loading state of the later url.
C1_Witness ==
  /\ UrlA \in apiRequests
  /\ UrlA \notin DOMAIN cache
  /\ showFetches = <<DrainUrl(1)>>
  /\ currentUrl = DrainUrl(1)
  /\ card.visible
  /\ card.view = "loading"

\* C2: show(url) on an entry older than 30 minutes misses: the entry is
\* removed, the loading state is shown and a new fetch starts (a request to
\* the external service, or the site handler's record cached anew); on an
\* entry of age at most 30 minutes it renders the entry and fetches nothing.
C2_ShowHonoursTtl ==
  [][\A url \in TtlUrls :
       (Show(url) /\ url \in DOMAIN cache) =>
         IF now - cache[url].timestamp > 30 * 60 * 1000
         THEN IF NeedsNetwork(url)
              THEN /\ url \notin DOMAIN cache'
                   /\ card'.visible /\ card'.view = "loading"
                   /\ showFetches' = Append(showFetches, url)
                   /\ url \in apiRequests'
              ELSE /\ cache'[url] = [data |-> LocalPreview(url), timestamp |-> now]
                   /\ card'.visible /\ card'.data = LocalPreview(url)
         ELSE /\ cache' = cache
              /\ card'.visible /\ card'.view # "loading"
              /\ card'.data = cache[url].data
              /\ showFetches' = showFetches
              /\ apiRequests' = apiRequests]_vars

\* UrlA was cached as a dead link, and is no longer cached: show(UrlA) has
\* removed the expired entry, shows the loading state and waits for a fetch.
C2_Witness ==
  /\ now > cacheDuration
  /\ UrlA \in deadLinks
  /\ UrlA \notin DOMAIN cache
  /\ currentUrl = UrlA
  /\ card.view = "loading"
  /\ showFetches = <<UrlA>>

\* C3: preloadLink(url) called while the cache holds an entry for url that
\* is older than the 30 minute time to live enqueues url for a refetch.
C3_StaleEntryIsRequeued == lastCall.stale => lastCall.enqueued

NoDuplicates(q) == \A i, j \in DOMAIN q : q[i] = q[j] => i = j

\* C4: the preload queue never holds a url twice, and a url enters it only
\* when it is not a key of the cache (and was not queued).
C4_QueueAdmitsOnlyNewUrls ==
  /\ [](NoDuplicates(preloadQueue))
  /\ [][\A u \in DrainUrls :
          (u \in Range(preloadQueue') /\ u \notin Range(preloadQueue))
          => u \notin DOMAIN cache]_vars

\* Urls wait in the queue while others are cached.
C4_Witness ==
  /\ Len(preloadQueue) >= 2
  /\ Cardinality(DOMAIN cache) >= 2

\* C5: while the runtime is valid a non-empty queue always has a drain
\* running or a restart timer pending; a url leaves the queue only into a
\* fetch or because it is cached; and every url is out of the queue again
\* and again, so that none stays queued for ever.
C5_QueuedUrlsAreDrained ==
  /\ [](runtimeValid /\ preloadQueue # <<>>
          => (isPreloading /\ Len(drains) > 0) \/ restartTimers > 0)
  /\ [][\A u \in DrainUrls :
          (runtimeValid /\ u \in Range(preloadQueue)
             /\ u \notin Range(preloadQueue'))
          => \/ u \in DOMAIN cache'
             \/ \E i \in DOMAIN drains' :
                  drains'[i].cur = u /\ drains'[i].pc = "fetch"]_vars
  /\ \A u \in DrainUrls :
       []<>(~runtimeValid \/ u \notin Range(preloadQueue))
  /\ []<>(~runtimeValid \/ \A i \in DOMAIN drains : drains[i].pc # "fetch")

\* A drain has ended with urls enqueued during it: the restart timer is
\* what will take them.
C5_Witness ==
  /\ runtimeValid
  /\ preloadQueue # <<>>
  /\ ~isPreloading
  /\ drains = <<>>
  /\ restartTimers = 1

\* C6: at most one drain is active, it is active exactly while isPreloading
\* is set, at most one preload request is in flight, and a drain round
\* holds at most 5 urls.
C6_OneDrainAtATime ==
  /\ Len(drains) <= 1
  /\ isPreloading = (Len(drains) = 1)
  /\ Cardinality({i \in DOMAIN drains : drains[i].pc = "fetch"}) <= 1
  /\ \A i \in DOMAIN drains : 1 + Len(drains[i].urls) <= 5

\* A round of five urls has started from a queue of six.
C6_Witness ==
  /\ Len(drains) = 1
  /\ Len(drains[1].urls) = 4
  /\ drains[1].pc = "fetch"
  /\ \E u \in Range(preloadQueue) : u \notin Range(drains[1].urls)

\* Whether the hostname of a url is instagram.com or below it.
OnInstagram(url) ==
  \/ Hostname(url) = S_instagram
  \/ EndsWith(Hostname(url), <<".">> \o S_instagram)

\* C7: no url on instagram.com is in the preload queue or in a drain, none
\* is requested from the external service, and the cache and the card hold
\* the fixed local record for it.
C7_InstagramStaysLocal ==
  /\ \A u \in Range(preloadQueue) : ~OnInstagram(u)
  /\ \A i \in DOMAIN drains :
       /\ ~OnInstagram(drains[i].cur)
       /\ \A u \in Range(drains[i].urls) : ~OnInstagram(u)
  /\ \A u \in apiRequests \cup Range(showFetches) : ~OnInstagram(u)
  /\ \A u \in DOMAIN cache :
       OnInstagram(u) => cache[u].data = InstagramPreview(u)
  /\ (currentUrl # NoUrl /\ OnInstagram(currentUrl))
       => card.view = "content" /\ card.data = InstagramPreview(currentUrl)

\* show() has rendered the local record while preloading was at work.
C7_Witness ==
  /\ currentUrl = UrlI
  /\ card.visible
  /\ card.data = InstagramPreview(UrlI)
  /\ isPreloading
  /\ apiRequests # {}

(***************************************************************************)
(* Properties of the content script                                        *)
(***************************************************************************)
\* C8: an element that carries the processed mark is never queued by
\* LinkProcessor.add, processElement called on it returns 0 and changes
\* nothing, and no pass adds an anchor to a span while the span and the
\* dialog around it both carry the mark.
C8_MarkedElementIsLeftAlone ==
  /\ [](\A el \in Range(queue) : el \notin processed)
  /\ [](\A el \in processed :
          processElement(Content, el, now, runtimeValid) = Content)
  /\ [][\A s \in Spans :
          s \in processed /\ "dialog" \in processed
            => CountLinks(spanNodes'[s]) <= CountLinks(spanNodes[s])]_vars

\* add() has just returned early on a marked span whose text would make an
\* anchor, were the span processed.
C8_Witness ==
  \E s \in Spans :
    /\ s \in processed
    /\ "dialog" \in processed
    /\ s \in lastSkipped
    /\ settings.enabled
    /\ ~HasLinkInside(spanNodes[s])
    /\ HasLinks(linkifyText(TextContent(spanNodes[s]), settings))

\* C9: every anchor of the linkifier has href equal to data-instaclick-url,
\* both equal to the non-null result of sanitizeUrl on the matched text (the
\* anchor's text), with scheme http or https; it carries rel="noopener
\* noreferrer", and target=_blank exactly when openInNewTab was true when it
\* was made; a candidate sanitizeUrl rejects is no anchor.
C9_AnchorCarriesSanitizedUrl ==
  \A s \in Spans : \A i \in DOMAIN spanNodes[s] :
    spanNodes[s][i].kind = "a" =>
      /\ spanNodes[s][i].href = spanNodes[s][i].dataUrl
      /\ sanitizeUrl(spanNodes[s][i].text) # NoUrl
      /\ spanNodes[s][i].href = sanitizeUrl(spanNodes[s][i].text)
      /\ UrlScheme(spanNodes[s][i].href) \in {S_http, S_https}
      /\ spanNodes[s][i].rel = S_rel
      /\ (spanNodes[s][i].target = "_blank") <=> spanNodes[s][i].newTab

(***************************************************************************)
(* Properties of the background service worker                             *)
(***************************************************************************)
\* C10: a TRACK_CLICK handler that finds trackHistory false answers
\* { success: true, tracked: false } and leaves the stored history and
\* stats as they are; a handler that found it true and whose write follows
\* its read with no other write between puts exactly one entry, its own,
\* at index 0 of the history, the earlier entries following in their order.
C10_TrackClickHonoursSetting ==
  /\ [][\A i \in DOMAIN requests :
          /\ requests[i].type = "TRACK_CLICK"
          /\ requests[i].pc = "settings"
          /\ ~StoredSettings(syncStore).trackHistory
          /\ \/ requests' = RemoveAt(requests, i)
             \/ requests' = [requests EXCEPT ![i].pc = "history"]
          => /\ requests' = RemoveAt(requests, i)
             /\ lastResponse' = Response("TRACK_CLICK", requests[i].url, TRUE, FALSE)
             /\ localStore' = localStore]_vars
  /\ [][\A i \in DOMAIN requests :
          /\ requests[i].type = "TRACK_CLICK"
          /\ requests[i].pc = "saveHistory"
          /\ requests' = [requests EXCEPT ![i].pc = "stats"]
          /\ StoredHistory(localStore) = requests[i].clickHistory
          => /\ Len(StoredHistory(localStore'))
                  = Len(SliceTo(StoredHistory(localStore) \o <<NoEntry>>,
                                HistoryLimit))
             /\ StoredHistory(localStore')[1] = requests[i].entry
             /\ requests[i].entry.url = requests[i].url
             /\ \A k \in 2..Len(StoredHistory(localStore')) :
                  StoredHistory(localStore')[k] = StoredHistory(localStore)[k - 1]
             /\ StoredStats(localStore') = StoredStats(localStore)]_vars

\* Two clicks were recorded, tracking was then turned off, and a click
\* handled since has been answered without being recorded.
C10_Witness ==
  /\ Len(StoredHistory(localStore)) >= 2
  /\ ~StoredSettings(syncStore).trackHistory
  /\ lastResponse.type = "TRACK_CLICK"
  /\ lastResponse.success
  /\ ~lastResponse.tracked
  /\ StoredStats(localStore).totalClicks = 2

(***************************************************************************)
(* Properties of the stored click history.                                 *)
(***************************************************************************)
NewestFirst(history) ==
  \A k \in 1..(Len(history) - 1) :
    history[k].timestamp >= history[k + 1].timestamp

\* C11: whatever TRACK_CLICK and CLEAR_HISTORY requests were handled, the
\* stored history holds at most 100 entries and is ordered newest first;
\* a write that cuts the history at the cap keeps the newest entries and
\* drops the oldest.
C11_HistoryCappedNewestFirst ==
  /\ [](Len(StoredHistory(localStore)) <= HistoryLimit)
  /\ [](NewestFirst(StoredHistory(localStore)))
  /\ [][\A i \in DOMAIN requests :
          /\ requests[i].type = "TRACK_CLICK"
          /\ requests[i].pc = "saveHistory"
          /\ requests' = [requests EXCEPT ![i].pc = "stats"]
          => LET all == <<requests[i].entry>> \o requests[i].clickHistory
                 kept == StoredHistory(localStore')
             IN  /\ Len(kept) = Min({Len(all), HistoryLimit})
                 /\ \A k \in 1..Len(kept) : kept[k] = all[k]
                 /\ \A k \in (Len(kept) + 1)..Len(all) :
                      \A j \in 1..Len(kept) :
                        all[k].timestamp <= kept[j].timestamp]_vars

\* The history is at the cap with two clicks of this run at its head: the
\* oldest entry the store started with has been dropped.
C11_Witness ==
  /\ Len(StoredHistory(localStore)) = HistoryLimit
  /\ StoredHistory(localStore)[1].timestamp >= 0
  /\ StoredHistory(localStore)[2].timestamp >= 0
  /\ StoredHistory(localStore)[HistoryLimit].timestamp = 0 - (HistoryLimit - 2)

\* The clicks counted for all hostnames together.
RECURSIVE DomainTotal(_)
DomainTotal(domains) ==
  IF DOMAIN domains = {} THEN 0
  ELSE LET hostname == CHOOSE h \in DOMAIN domains : TRUE
       IN  domains[hostname] + DomainTotal(MapDelete(domains, hostname))

\* C12: with tracking enabled and no CLEAR_HISTORY, once every TRACK_CLICK
\* received has been answered { success: true, tracked: true }, each of the
\* N requests has contributed one history entry and one increment of
\* totalClicks and of its hostname's count: totalClicks = N, the hostname
\* counts add up to N, and the history has min(N, 100) entries.
C12_EveryTrackedClickCounts ==
  requests = <<>> =>
    /\ StoredStats(localStore).totalClicks = clicks
    /\ DomainTotal(StoredStats(localStore).domains) = clicks
    /\ Len(StoredHistory(localStore)) = Min({clicks, HistoryLimit})

\* C13: once CLEAR_HISTORY has answered success, and for as long as no
\* TRACK_CLICK received after the clear has been recorded, the stored
\* history is empty and the stats are { totalClicks: 0, domains: {} }, also
\* while a trackLinkClick handler that started before the clear is between
\* its storage reads and writes.
C13_ClearedStaysCleared ==
  lastResponse.type = "CLEAR_HISTORY" /\ lastResponse.success =>
    /\ StoredHistory(localStore) = <<>>
    /\ StoredStats(localStore) = NoStats

(***************************************************************************)
(* Properties of the stored settings.                                      *)
(***************************************************************************)
\* merged is base overridden key by key with over.
Overrides(merged, base, over) ==
  /\ DOMAIN merged = DOMAIN base \cup DOMAIN over
  /\ \A k \in DOMAIN over : merged[k] = over[k]
  /\ \A k \in DOMAIN base \ DOMAIN over : merged[k] = base[k]

\* C14: when UPDATE_SETTINGS{s} answers success, the stored settings are
\* the settings stored before overridden key by key with s, every host-page
\* tab that can receive messages has received SETTINGS_UPDATED with that
\* record although an earlier tab of the loop rejected it, and the answer
\* carries the record; GET_SETTINGS answers the stored settings merged over
\* the defaults, with every default key present.
C14_UpdateSettingsMergesAndNotifies ==
  /\ [](\A i \in DOMAIN requests :
          requests[i].type = "UPDATE_SETTINGS" /\ requests[i].pc = "save"
          => requests[i].settings = StoredSettings(syncStore))
  /\ [][\A i \in DOMAIN requests :
          /\ requests[i].type = "UPDATE_SETTINGS"
          /\ requests[i].pc = "notify"
          /\ requests' = RemoveAt(requests, i)
          => /\ Overrides(StoredSettings(syncStore'), requests[i].settings,
                          requests[i].message)
             /\ lastResponse' = SettingsResponse("UPDATE_SETTINGS",
                                                 StoredSettings(syncStore'))
             /\ \A tab \in Range(Tabs) \ TabsWithoutContentScript :
                  tabNotified'[tab] = StoredSettings(syncStore')]_vars
  /\ [][\A i \in DOMAIN requests :
          /\ requests[i].type = "GET_SETTINGS"
          /\ requests' = RemoveAt(requests, i)
          => /\ lastResponse'.type = "GET_SETTINGS"
             /\ lastResponse'.success
             /\ Overrides(lastResponse'.settings, DEFAULT_SETTINGS,
                          StoredSettings(syncStore))]_vars

\* Settings of an earlier version were overridden by an UPDATE_SETTINGS,
\* the receiving tab got the merged record, and a GET_SETTINGS answered it
\* with the default keys the store lacks.
C14_Witness ==
  /\ lastResponse.type = "GET_SETTINGS"
  /\ ~lastResponse.settings.enabled
  /\ lastResponse.settings.linkStyle = "default"
  /\ "linkStyle" \notin DOMAIN StoredSettings(syncStore)
  /\ ~StoredSettings(syncStore).enabled
  /\ tabNotified["tab2"] = StoredSettings(syncStore)
  /\ tabNotified["tab1"] = EmptyMap

\* C15: while the user has changed no setting, click-history tracking is
\* off: GET_SETTINGS answers trackHistory = false, and a TRACK_CLICK is
\* answered as not tracked and leaves the history and the stats empty.
C15_TrackingOffByDefault ==
  /\ lastResponse.type = "GET_SETTINGS" => ~lastResponse.settings.trackHistory
  /\ lastResponse.type = "TRACK_CLICK" => ~lastResponse.tracked
  /\ StoredHistory(localStore) = <<>>
  /\ StoredStats(localStore) = NoStats

(***************************************************************************)
(* Properties of hovering.                                                 *)
(***************************************************************************)
\* C16: a move of the pointer from an anchor into the card or the QR popup
\* calls no hide() and leaves no hide() timer pending, and a move between
\* the card and the QR popup calls no hide(): the card stays visible and
\* the popup stays as it was.
C16_EnteringCardKeepsItOpen ==
  /\ [][pointer.kind = "link" /\ pointer'.kind \in {"card", "qr"}
          => /\ hoverDelayTimeout'.kind # "hide"
             /\ card'.visible
             /\ card' = card
             /\ qrPopup' = qrPopup
             /\ currentUrl' = currentUrl]_vars
  /\ [][(\/ pointer.kind = "card" /\ pointer'.kind = "qr"
         \/ pointer.kind = "qr" /\ pointer'.kind = "card")
          => /\ card'.visible
             /\ card' = card
             /\ qrPopup'.visible
             /\ qrPopup' = qrPopup
             /\ currentUrl' = currentUrl]_vars

\* The pointer went from an anchor to the card, opened the QR popup, went
\* over the popup and came back to the card: card and popup are visible.
C16_Witness ==
  /\ pointer.kind = "card"
  /\ card.visible
  /\ qrPopup.visible
  /\ currentUrl = UrlA
  /\ card.view = "content"

\* C17: when the pointer has left an anchor for an element of the page
\* that is neither the card nor the QR popup, and enters no anchor and no
\* card afterwards, hide() is called when the 150 ms timer fires and the
\* card does not stay visible.
C17_LeavingLinkHidesCard ==
  (pointer.kind = "page" /\ card.visible)
    ~> (~card.visible \/ pointer.kind \in {"link", "card"})

\* C18: hide() leaves the cache and the preload queue as they are; after
\* it currentUrl and currentLink are null and neither the card nor the QR
\* popup is visible.
C18_HideLeavesCacheAndQueue ==
  /\ [](LET m == HideOp(Manager)
        IN /\ m.cache = cache
           /\ m.preloadQueue = preloadQueue
           /\ m.currentUrl = NoUrl
           /\ m.currentLink = NoLink
           /\ ~m.card.visible
           /\ ~m.qrPopup.visible)
  /\ [][hoverDelayTimeout.kind = "hide" /\ hoverDelayTimeout' = NoTimeout
          /\ pointer' = pointer
          => /\ cache' = cache
             /\ preloadQueue' = preloadQueue
             /\ currentUrl' = NoUrl
             /\ currentLink' = NoLink
             /\ ~card'.visible
             /\ ~qrPopup'.visible]_vars

\* The card and the QR popup were open and hide() has run since, with an
\* entry in the cache and urls waiting in the preload queue.
C18_Witness ==
  /\ card.exists
  /\ ~card.visible
  /\ qrPopup.exists
  /\ ~qrPopup.visible
  /\ currentUrl = NoUrl
  /\ currentLink = NoLink
  /\ DOMAIN cache # {}
  /\ Len(preloadQueue) > 0

(***************************************************************************)
(* Properties of metadata resolution.                                      *)
(***************************************************************************)
\* The manager after the step.
ManagerNext ==
  [cache |-> cache', preloadQueue |-> preloadQueue',
   isPreloading |-> isPreloading', drains |-> drains',
   restartTimers |-> restartTimers', currentUrl |-> currentUrl',
   card |-> card', showFetches |-> showFetches', deadLinks |-> deadLinks',
   apiRequests |-> apiRequests', currentLink |-> currentLink',
   qrPopup |-> qrPopup', abortedFetches |-> abortedFetches',
   expandBtn |-> expandBtn', expandedDiv |-> expandedDiv',
   expandedText |-> expandedText', expandCalls |-> expandCalls',
   hideTimers |-> hideTimers']

\* The manager when the metadata call of the i-th suspended show() has
\* settled with outcome.
ShowSettled(i, outcome) ==
  ShowResultOp([Manager EXCEPT !.showFetches = RemoveAt(showFetches, i),
                               !.abortedFetches = RemoveAt(abortedFetches, i)],
               showFetches[i], GenericPreview(showFetches[i], outcome), now)

\* C19: whenever the metadata resolution of a url reports is404, for a
\* preload or for show(), with the card still on that url or not, the
\* anchors of that url carry the dead-link class afterwards.
C19_DeadLinkIsMarked ==
  [][/\ \A i \in DOMAIN showFetches :
          ManagerNext = ShowSettled(i, "fail404")
          => showFetches[i] \in deadLinks'
     /\ \A i \in DOMAIN drains :
          /\ drains[i].pc = "fetch"
          /\ ManagerNext = DrainFetchDoneOp(Manager, i, "fail404", now)
          => drains[i].cur \in deadLinks']_vars

\* C20: a metadata request whose AbortController was aborted by a later
\* show() does not run to completion: when it settles it settles as
\* aborted, and neither the cache, nor the card, nor the dead-link marks
\* take anything from it.
C20_LaterShowCancelsRequest ==
  [][\A i \in DOMAIN showFetches :
       /\ abortedFetches[i]
       /\ showFetches' = RemoveAt(showFetches, i)
       /\ abortedFetches' = RemoveAt(abortedFetches, i)
       => UNCHANGED <<cache, card, deadLinks>>]_vars

(***************************************************************************)
(* Properties of the generic metadata handler.                             *)
(***************************************************************************)
\* The service answered status 'fail' with a message that contains '404',
\* 'not found' or 'ENOTFOUND'.
AnsweredNotFound(settled) ==
  /\ settled.kind = "response"
  /\ settled.body.kind = "object"
  /\ settled.body.status = "fail"
  /\ settled.body.message.kind = "string"
  /\ \E part \in {<<"4", "0", "4">>, <<"n", "o", "t", " ", "f", "o", "u", "n", "d">>, <<"E", "N", "O", "T", "F", "O", "U", "N", "D">>} :
       Includes(settled.body.message.value, part)

\* C21: whatever the external call did (network error, unparsable body,
\* status 'fail', success), fetchGenericPreview returns a complete record;
\* is404 is true exactly when the status is 'fail' and the message contains
\* '404', 'not found' or 'ENOTFOUND', and in every other case a thumbnail
\* url is present: the image of the service or the screenshot url.
C21_GenericPreviewNeverFails ==
  \A i \in DOMAIN genericCalls :
    LET call == genericCalls[i]
        data == call.result
    IN /\ call.pc = "json" => call.settled.kind = "response"
       /\ call.settled.kind = "reject" => call.pc = "returned"
       /\ call.pc = "returned" /\ call.settled # NotSettled
          => /\ data.type = "website"
             /\ data.url = call.url
             /\ data.domain = call.domain
             /\ data.favicon.kind = "string" /\ data.favicon.value # <<>>
             /\ data.title.kind = "string" /\ data.title.value # <<>>
             /\ data.description.kind = "string"
             /\ data.is404 <=> AnsweredNotFound(call.settled)
             /\ ~data.is404
                => /\ data.image.kind = "string"
                   /\ data.image.value # <<>>
                   /\ \/ data.image.value = ScreenshotUrl(call.url)
                      \/ /\ call.settled.kind = "response"
                         /\ call.settled.body.kind = "object"
                         /\ data.image = call.settled.body.data.image

\* One call returned the not-found record for a failure whose message holds
\* ENOTFOUND while another returned the screenshot fallback after the
\* service answered null.
C21_Witness ==
  /\ Len(genericCalls) = 2
  /\ genericCalls[1].pc = "returned"
  /\ genericCalls[1].result.is404
  /\ genericCalls[1].settled = ApiResponse(ApiResult("fail", JsString(<<"g", "e", "t", "a", "d", "d", "r", "i", "n", "f", "o", " ", "E", "N", "O", "T", "F", "O", "U", "N", "D", " ", "a", ".", "c", "o">>), NoApiData))
  /\ genericCalls[2].pc = "returned"
  /\ genericCalls[2].settled = ApiResponse([kind |-> "null"])
  /\ genericCalls[2].result.image = JsString(ScreenshotUrl(genericCalls[2].url))

ResolvedElsewhere(handler) ==
  /\ handler.pc = "json"
  /\ handler.fetched.body.kind = "object"
  /\ handler.fetched.body.resolved_url.kind = "string"
  /\ handler.fetched.body.resolved_url.value \notin {<<>>, handler.url}

\* C23: EXPAND_URL{url} answers success = false with expandedUrl = url when
\* the resolution fails (network error, unparsable body, no resolved url,
\* resolved url equal to url), and success = true only with the resolved
\* url, which differs from url.
C23_ExpandUrlFallsBack ==
  [][\A i \in DOMAIN requests :
       /\ requests[i].type = "EXPAND_URL"
       /\ requests' = RemoveAt(requests, i)
       => /\ lastResponse'.type = "EXPAND_URL"
          /\ lastResponse'.url = requests[i].url
          /\ lastResponse'.success <=> ResolvedElsewhere(requests[i])
          /\ ~lastResponse'.success
             => lastResponse'.expandedUrl = JsString(requests[i].url)
          /\ lastResponse'.success
             => /\ lastResponse'.expandedUrl = requests[i].fetched.body.resolved_url
                /\ lastResponse'.expandedUrl # JsString(requests[i].url)]_vars

\* A request for the short url was answered with the url it resolves to
\* while a second request, whose resolution answered the short url itself,
\* is about to fall back.
C23_Witness ==
  /\ lastResponse = ExpandResponse(UrlShort, TRUE, JsString(UrlA))
  /\ Len(requests) = 1
  /\ requests[1].type = "EXPAND_URL"
  /\ requests[1].url = UrlShort
  /\ requests[1].pc = "json"
  /\ requests[1].fetched.body = Unshortened(JsString(UrlShort))

(***************************************************************************)
(* Properties of linkification on the caption of ExampleTexts.             *)
(***************************************************************************)
\* C24: the span whose text "check out example.com/page and also
\* http://bad..ending" has been linkified holds exactly one anchor, for
\* example.com/page with href https://example.com/page, and
\* http://bad..ending as plain text.
C24_ExampleMakesOneAnchor ==
  \A s \in Spans :
    TextContent(spanNodes[s]) = S_checkOut /\ HasLinkInside(spanNodes[s])
    => /\ CountLinks(spanNodes[s]) = 1
       /\ \A i \in DOMAIN spanNodes[s] :
            spanNodes[s][i].kind = "a"
            => /\ spanNodes[s][i].text = <<"e", "x", "a", "m", "p", "l", "e", ".", "c", "o", "m", "/", "p", "a", "g", "e">>
               /\ spanNodes[s][i].href = UrlPage
       /\ \E i \in DOMAIN spanNodes[s] :
            /\ spanNodes[s][i].kind = "text"
            /\ Includes(spanNodes[s][i].text, <<"h", "t", "t", "p", ":", "/", "/", "b", "a", "d", ".", ".", "e", "n", "d", "i", "n", "g">>)

(***************************************************************************)
(* Properties of the link processor.                                       *)
(***************************************************************************)
\* The queue holds elements and neither a debounce timer nor an animation
\* frame is pending.
QueueStranded ==
  Len(queue) > 0 /\ debounceTimer = NoTimer /\ framePending = 0

\* A call of processDebounced() replaces a pending timer.
TimerRestarted ==
  /\ debounceTimer # NoTimer
  /\ debounceTimer' \notin {NoTimer, debounceTimer}

PassThrew == isProcessing /\ framePending = 0

FrameRequested == framePending' = framePending + 1

\* C26: a burst of add() calls is followed by one pass: add() itself
\* requests no frame and a call that finds a timer pending only replaces it,
\* a frame is requested only by the timer's firing, never while another is
\* pending (isProcessing), the pass that comes takes the whole queue, and
\* an element added several times is in the queue once.
C26_BurstMakesOnePass ==
  /\ [](/\ framePending <= 1
        /\ framePending = 1 => isProcessing
        /\ NoDuplicates(queue))
  /\ [][FrameRequested =>
          debounceTimer # NoTimer /\ debounceTimer' = NoTimer]_vars
  /\ [][TimerRestarted => framePending' <= framePending]_vars
  /\ [][FrameComes => Range(queue') \subseteq {AnchorElement}]_vars

\* One pass is pending after the timer fired, for several elements queued
\* by a burst.
C26_Witness ==
  /\ framePending = 1
  /\ debounceTimer = NoTimer
  /\ Len(queue) >= 2

\* C27: a pass that fails is not fatal: isProcessing is false again after
\* every pass, and elements added later are still processed (unless calls
\* of add() keep restarting the timer for ever).
C27_PassFailureIsNotFatal ==
  /\ [][FrameComes => ~isProcessing']_vars
  /\ \/ []<><<TimerRestarted>>_vars
     \/ \A el \in Elements \cup {AnchorElement} :
          (el \in Range(queue)) ~> (el \notin Range(queue))

\* The text of the span would make an anchor, and the span has none.
Linkable(s) ==
  /\ ~HasLinkInside(spanNodes[s])
  /\ HasLinks(linkifyText(TextContent(spanNodes[s]), settings))

\* The handler ran with the extension switched off.
RanDisabled == ~settings.enabled \/ ~settings'.enabled

\* A span is queued for a pass, its text would make an anchor, and the
\* pattern's lastIndex is 0, as every scan but the sweep leaves it.
AwaitsPass(s) ==
  /\ settings.enabled
  /\ s \in Range(queue)
  /\ Linkable(s)
  /\ regexLastIndex = 0

\* The span got its anchor, or the extension was switched off again, or
\* the page changed the text.
Settled(s) ==
  \/ HasLinkInside(spanNodes[s])
  \/ ~settings.enabled
  \/ ~Linkable(s)

\* While enabled is false no anchor is made and no element is marked, also
\* by the pass over elements queued earlier.
DisabledIsInert ==
  [][RanDisabled =>
       /\ processed' \subseteq processed
       /\ \A s \in Spans :
            CountLinks(spanNodes'[s]) <= CountLinks(spanNodes[s])]_vars

\* The SETTINGS_UPDATED that switches the extension on queues every element
\* without the mark.
EnablingRescans ==
  [][~settings.enabled /\ settings'.enabled =>
       \A el \in Elements : el \in processed \/ el \in Range(queue')]_vars

ShowInvoked ==
  /\ hoverDelayTimeout.kind = "show"
  /\ hoverDelayTimeout' = NoTimeout
  /\ pointer' = pointer

\* The urls waiting to be preloaded: in the queue, or taken by a drain.
PendingUrls ==
  Range(preloadQueue) \cup {drains[i].cur : i \in DOMAIN drains}

\* C29: while settings.showPreview is false show() is not invoked and no
\* url is added to the preload queue, by any handler: hover events, timers
\* set earlier, passes that make anchors, anchors coming into view,
\* SETTINGS_UPDATED messages.
C29_PreviewOffIsQuiet ==
  [][~settings.showPreview =>
       /\ ~ShowInvoked
       /\ PendingUrls' \subseteq PendingUrls]_vars

\* The span carries the mark, its text matches the pattern and it has no
\* anchor inside.
StaleMark(s) == HasStaleMark(Content, s)

\* The sweep has just queued the span: the pattern's lastIndex is where
\* the sweep's test left it.
SweptIn(s) ==
  /\ settings.enabled
  /\ s \in Range(queue)
  /\ s \notin processed
  /\ Linkable(s)
  /\ regexLastIndex # 0

\* C30: the sweep, whenever it runs with the extension enabled, clears the
\* mark of a span with a stale mark and queues it, and leaves a span with
\* an anchor inside as it is; the span it queued is then linkified (unless
\* calls of add() keep restarting the timer for ever).
C30_SweepRevivesSpan ==
  /\ [](settings.enabled =>
          \A s \in Spans :
            /\ StaleMark(s) =>
                 /\ s \notin SweepOp(Content).processed
                 /\ s \in Range(SweepOp(Content).queue)
            /\ HasLinkInside(spanNodes[s]) =>
                 /\ SweepOp(Content).spanNodes[s] = spanNodes[s]
                 /\ (s \in SweepOp(Content).processed) = (s \in processed)
                 /\ (s \in Range(SweepOp(Content).queue))
                      = (s \in Range(queue)))
  /\ \/ []<><<TimerRestarted>>_vars
     \/ \A s \in Spans : SweptIn(s) ~> Settled(s)

\* The page replaces the content of a span by a text node.
PageChanged ==
  /\ framePending' = framePending
  /\ \E s \in Spans :
       /\ spanNodes'[s] # spanNodes[s]
       /\ \A i \in DOMAIN spanNodes'[s] : spanNodes'[s][i].kind = "text"

\* No element is queued and no mark is cleared.
NothingRequeued ==
  /\ processed \subseteq processed'
  /\ Range(queue') \subseteq Range(queue)

\* C31: unless the page keeps changing its spans, linkification becomes
\* quiescent: from some point on no element is queued and no mark is
\* cleared any more.
C31_LinkificationQuiesces ==
  \/ []<><<PageChanged>>_vars
  \/ <>[][NothingRequeued]_vars

Untouchable(node) ==
  \/ node.kind \in {"a", "script", "style"}
  \/ Trim(node.text) = <<>>

\* The children of a span after the text nodes at the positions in
\* `replaced` gave way to what linkification makes of them.
RECURSIVE PassResult(_, _, _)
PassResult(nodes, replaced, i) ==
  IF i > Len(nodes) THEN <<>>
  ELSE (IF i \in replaced THEN LinkifiedNodes(nodes[i].text, settings)
        ELSE <<nodes[i]>>) \o PassResult(nodes, replaced, i + 1)

Replaceable(nodes) == {i \in DOMAIN nodes : ~Untouchable(nodes[i])}

\* The anchors of the page.
PageLinks(nodes) == CountLinks(nodes["span1"]) + CountLinks(nodes["span2"])

\* C33: a processing pass changes the children of a span only by putting
\* the linkified nodes in the place of text nodes that are not white
\* space; every anchor, script element, style element and white-space
\* text node is afterwards where and what it was, and the pass counts as
\* many new links as the page has more anchors than before, so no anchor
\* is made inside an anchor and no url is linkified twice.
C33_PassLeavesAnchorsAndScripts ==
  [][framePending' < framePending =>
       /\ \A s \in Spans :
            \E replaced \in SUBSET Replaceable(spanNodes[s]) :
              spanNodes'[s] = PassResult(spanNodes[s], replaced, 1)
       /\ linkCount' - linkCount = PageLinks(spanNodes') - PageLinks(spanNodes)]_vars

\* A second pass went over a span that holds a script element, a style
\* element, white space and the anchor an earlier pass made.
C33_Witness ==
  /\ \E s \in Spans :
       /\ Len(spanNodes[s]) = 5
       /\ HasLinkInside(spanNodes[s])
       /\ \E i \in DOMAIN spanNodes[s] : spanNodes[s][i].kind = "script"
       /\ s \in processed
  /\ "dialog" \in processed
  /\ linkCount = 1
  /\ queue = <<>>
  /\ ~isProcessing

\* A step of the QR button's click handler: the only step that changes the
\* popup with the pointer and the hover timer left as they are.
QRActivated ==
  /\ qrPopup' # qrPopup
  /\ pointer' = pointer
  /\ hoverDelayTimeout' = hoverDelayTimeout

\* C34: whenever the QR popup is visible the card has a current url and
\* the src of the popup's image is the QR service address with that url as
\* its encoded data; a click on the QR button makes a hidden popup visible
\* with the current url's image and a visible popup hidden.
C34_QRShowsCurrentUrl ==
  /\ [](qrPopup.visible =>
          /\ currentUrl # NoUrl
          /\ qrPopup.src = QRUrl(currentUrl))
  /\ [][QRActivated =>
          /\ qrPopup'.visible = ~qrPopup.visible
          /\ qrPopup'.visible => qrPopup'.src = QRUrl(currentUrl)
          /\ UNCHANGED <<currentUrl, card>>]_vars

\* The popup is open for the second url after it had been opened before
\* for another one.
C34_Witness ==
  /\ qrPopup.visible
  /\ currentUrl = UrlY
  /\ qrPopup.src = QRUrl(UrlY)
  /\ UrlA \in DOMAIN cache

\* C35: the card is visible exactly when currentUrl is set, and the QR
\* popup is visible only while the card is.
C35_CardVisibleIffCurrentUrl ==
  /\ card.visible <=> currentUrl # NoUrl
  /\ qrPopup.visible => card.visible

\* A click on the card has hidden it and its QR popup while the metadata
\* call of its show() is still under way.
C35_Witness ==
  /\ card.exists
  /\ ~card.visible
  /\ qrPopup.exists
  /\ currentUrl = NoUrl
  /\ hideTimers = 0
  /\ pointer.kind = "card"
  /\ Len(showFetches) > 0

\* The texts expandCurrentUrl shows for the url the card is showing.
ExpandTextsOf(url) ==
  {ShownUrl(Destination(url)), S_couldNotExpand, S_notShortened}

\* An expandCurrentUrl call resumes from its await.
ExpandResumes == Len(expandCalls') < Len(expandCalls)

\* C36: while the card is visible with its expanded-destination row shown,
\* the text of the row is the destination of the card's current url or one
\* of the two inline messages; and every expandCurrentUrl call that
\* resumes, with an answer or a rejection, enables the button and shows
\* the row with a destination or an inline message.
C36_ExpandedBelongsToCurrentUrl ==
  /\ [](card.visible /\ expandedDiv.display = "block" =>
          expandedText.textContent \in ExpandTextsOf(currentUrl))
  /\ [][ExpandResumes =>
          /\ ~expandBtn'.disabled
          /\ expandedDiv'.display = "block"
          /\ expandedText'.textContent \in
               UNION {ExpandTextsOf(url) : url \in HoverUrls}]_vars

\* The urls of the anchors among the nodes, and of those that carry the
\* class instaclick-dead-link.
LinkUrls(nodes) ==
  {nodes[i].dataUrl : i \in {j \in DOMAIN nodes : nodes[j].kind = "a"}}

DeadLinkUrls(nodes) ==
  {nodes[i].dataUrl :
     i \in {j \in DOMAIN nodes : nodes[j].kind = "a" /\ nodes[j].dead}}

\* C37: an anchor flagged as a dead link carries the dead-link class after
\* every step that leaves it on the page.
C37_DeadLinkStaysFlagged ==
  [][\A s \in Spans :
       \A url \in DeadLinkUrls(spanNodes[s]) :
         url \in LinkUrls(spanNodes'[s]) =>
           url \in DeadLinkUrls(spanNodes'[s])]_vars

\* The hostname is a listed site domain or a subdomain of one.
OnListedSite(hostname) ==
  \E i \in DOMAIN SiteHandlers :
    \/ hostname = SiteHandlers[i].site
    \/ EndsWith(hostname, <<".">> \o SiteHandlers[i].site)

\* C38: a record made by a site-specific handler is made only for a url
\* whose hostname is a listed site domain or a subdomain of one, and the
\* url of every other hostname shown goes to the generic handler's
\* metadata service.
C38_SiteHandlerOnlyForListed ==
  \A url \in DOMAIN cache :
    IF OnListedSite(Hostname(url))
    THEN cache[url].data.source = "handler"
    ELSE /\ cache[url].data.source # "handler"
         /\ url \in apiRequests

\* Every UPDATE_SETTINGS the popup sent is answered and no handler runs.
PopupIdle == popupSettings # EmptyMap /\ popupPending = 0 /\ requests = <<>>

\* C39: the user changes different switches of the popup, also one before
\* the answer to the other has arrived; once every request is answered the
\* stored settings hold for each switch the value the switch shows.
C39_StoredMatchesSwitches ==
  PopupIdle =>
    \A id \in Range(settingIds) :
      MapMerge(DEFAULT_SETTINGS, StoredSettings(syncStore))[id] = checked[id]

=============================================================================
